---- MODULE Spec2Model ----
(***************************************************************************)
(* Model of the EASE supernode clustering backend:                         *)
(*   backend/app/dsu.py       the union-find engine (DSU)                  *)
(*   backend/app/utils.py     candidate selection and the pair hash        *)
(*   backend/app/pipeline.py  run_pipeline, snapshot and the current run   *)
(*   backend/app/models.py, loader.py  graph indices and fingerprints      *)
(*   backend/app/services/supernode_reconstruction.py  the fidelity gate   *)
(*       and reconstruct_supernodes on a SupernodeReconstructor            *)
(* Python lists are modelled as functions over 0..n-1 where the code       *)
(* indexes them, and as sequences where the code only appends to them.     *)
(***************************************************************************)
EXTENDS Integers, Sequences, FiniteSets, TLC

VARIABLES dsu, snaps, ret, selIn, selOut,
          graph, req, tieOrder, run, nruns, current, results, reply, gate, recon

dsuVars == <<dsu, snaps, ret>>

selVars == <<selIn, selOut>>

runVars == <<graph, req, tieOrder, run, nruns, current, results, reply>>

vars == <<dsuVars, selVars, runVars, gate, recon>>

----------------------------------------------------------------------------
(* Bound of the union-find state machine *)

\* number of items the DSU is constructed over
NumItems == 4

Idx == 0 .. (NumItems - 1)

----------------------------------------------------------------------------
(* backend/app/dsu.py *)

\* DSU.__init__: parent = list(range(n)), size = [1] * n
DSUInit(n) ==
    [parent |-> [i \in 0 .. (n - 1) |-> i], size |-> [i \in 0 .. (n - 1) |-> 1]]

\* find with `if` in place of `while`: one step up instead of walking to the root
FindLoop_OneStep(p, i) ==
    IF p[i] = i THEN [parent |-> p, r |-> i] ELSE [parent |-> p, r |-> p[i]]

\* the while loop of DSU.find (path halving); returns the root and the
\* parent array as the loop leaves it
RECURSIVE FindLoop(_, _)
FindLoop(p, i) ==
    IF p[i] = i
    THEN [parent |-> p, r |-> i]
    ELSE LET p2 == [p EXCEPT ![i] = p[p[i]]]
         IN  FindLoop(p2, p2[i])

\* find that answers with its argument
DSUFind_Self(d, x) == [dsu |-> d, r |-> x]

\* DSU.find
DSUFind(d, x) ==
    LET f == FindLoop(d.parent, x)
    IN  [dsu |-> [d EXCEPT !.parent = f.parent], r |-> f.r]

\* union that compares the arguments, not their roots, before linking
DSUUnion_CompareArgs(d, a, b) ==
    LET fa == DSUFind(d, a)
        fb == DSUFind(fa.dsu, b)
        d2 == fb.dsu
    IN  IF a = b
        THEN [dsu |-> d2, ok |-> FALSE]
        ELSE LET ra == IF d2.size[fa.r] < d2.size[fb.r] THEN fb.r ELSE fa.r
                 rb == IF d2.size[fa.r] < d2.size[fb.r] THEN fa.r ELSE fb.r
             IN  [dsu |-> [parent |-> [d2.parent EXCEPT ![rb] = ra],
                           size   |-> [d2.size EXCEPT ![ra] = @ + d2.size[rb]]],
                  ok  |-> TRUE]

\* DSU.union
DSUUnion(d, a, b) ==
    LET fa == DSUFind(d, a)
        fb == DSUFind(fa.dsu, b)
        d2 == fb.dsu
    IN  IF fa.r = fb.r
        THEN [dsu |-> d2, ok |-> FALSE]
        ELSE LET ra == IF d2.size[fa.r] < d2.size[fb.r] THEN fb.r ELSE fa.r
                 rb == IF d2.size[fa.r] < d2.size[fb.r] THEN fa.r ELSE fb.r
             IN  [dsu |-> [parent |-> [d2.parent EXCEPT ![rb] = ra],
                           size   |-> [d2.size EXCEPT ![ra] = @ + d2.size[rb]]],
                  ok  |-> TRUE]

\* res[r] = [i]: overwrites the member list instead of appending to it
DictAppend_Overwrite(res, r, i) ==
    IF r \in DOMAIN res
    THEN [res EXCEPT ![r] = <<i>>]
    ELSE res @@ (r :> <<i>>)

\* res.setdefault(r, []).append(i) on a dict held as a function
DictAppend(res, r, i) ==
    IF r \in DOMAIN res
    THEN [res EXCEPT ![r] = Append(@, i)]
    ELSE res @@ (r :> <<i>>)

\* the for loop of DSU.groups from index i on
RECURSIVE GroupsLoop(_, _, _)
GroupsLoop(d, i, res) ==
    IF i \notin DOMAIN d.parent
    THEN [dsu |-> d, res |-> res]
    ELSE LET f == DSUFind(d, i)
         IN  GroupsLoop(f.dsu, i + 1, DictAppend(res, f.r, i))

\* DSU.groups
DSUGroups(d) == GroupsLoop(d, 0, <<>>)

\* the list comprehension of DSU.snapshot from index i on
RECURSIVE SnapshotLoop(_, _, _)
SnapshotLoop(d, i, out) ==
    IF i \notin DOMAIN d.parent
    THEN [dsu |-> d, parents |-> out]
    ELSE LET f == DSUFind(d, i)
         IN  SnapshotLoop(f.dsu, i + 1, out @@ (i :> f.r))

\* DSU.snapshot
DSUSnapshot(d) == SnapshotLoop(d, 0, <<>>)

\* restore that leaves every size at 1
RestoreSizes_Ones(p, i, sz) == sz

\* the size recomputation loop of DSU.restore from index i on
RECURSIVE RestoreSizes(_, _, _)
RestoreSizes(p, i, sz) ==
    IF i \notin DOMAIN p
    THEN sz
    ELSE RestoreSizes(p, i + 1,
                      IF p[i] # i THEN [sz EXCEPT ![p[i]] = @ + 1] ELSE sz)

\* restore that recomputes the sizes but never assigns self.parent
DSURestore_KeepParent(d, parents) ==
    [parent |-> d.parent,
     size   |-> RestoreSizes(parents, 0, [i \in DOMAIN d.parent |-> 1])]

\* DSU.restore
DSURestore(d, parents) ==
    [parent |-> parents,
     size   |-> RestoreSizes(parents, 0, [i \in DOMAIN d.parent |-> 1])]

----------------------------------------------------------------------------
(* The DSU as a state machine: a client calling its public methods *)

\* ret is the last call: its arguments a and b, the value val it returned,
\* and pre, what the caller could observe just before making it
NoRet == [op |-> "init", a |-> 0, b |-> 0, val |-> <<>>, pre |-> <<>>]

\* a DSU over NumItems items; nothing else of the program runs
InitDSU ==
    /\ dsu = DSUInit(NumItems)
    /\ snaps = <<>>
    /\ ret = NoRet
    /\ selIn = <<>>
    /\ selOut = <<>>
    /\ graph = <<>>
    /\ req = <<>>
    /\ tieOrder = "low"
    /\ run = <<>>
    /\ nruns = 0
    /\ current = <<>>
    /\ results = <<>>
    /\ reply = <<>>
    /\ gate = <<>>
    /\ recon = <<>>

\* ret.pre records whether find(a) != find(b) held before the call
CallUnion(a, b) ==
    LET u == DSUUnion(dsu, a, b)
    IN  /\ dsu' = u.dsu
        /\ ret' = [op |-> "union", a |-> a, b |-> b, val |-> u.ok,
                   pre |-> (DSUFind(dsu, a).r # DSUFind(dsu, b).r)]
        /\ UNCHANGED <<snaps, selVars, runVars, gate, recon>>

\* ret.pre records the parent x had before the call
CallFind(x) ==
    LET f == DSUFind(dsu, x)
    IN  /\ dsu' = f.dsu
        /\ ret' = [op |-> "find", a |-> x, b |-> 0, val |-> f.r,
                   pre |-> dsu.parent[x]]
        /\ UNCHANGED <<snaps, selVars, runVars, gate, recon>>

CallGroups ==
    LET g == DSUGroups(dsu)
    IN  /\ dsu' = g.dsu
        /\ ret' = [op |-> "groups", a |-> 0, b |-> 0, val |-> g.res, pre |-> <<>>]
        /\ UNCHANGED <<snaps, selVars, runVars, gate, recon>>

\* d.snapshot(); the caller either drops the result or keeps it as its
\* snapshot s (with what groups() returned at that moment), in place of the
\* one it held; snaps is <<>> or <<s>>
CallSnapshot(keep) ==
    LET s == DSUSnapshot(dsu)
        g == DSUGroups(s.dsu)
        kept == [parents |-> s.parents, groups |-> g.res]
    IN  /\ dsu' = s.dsu
        /\ snaps' = IF keep THEN <<kept>> ELSE snaps
        /\ ret' = [op |-> "snapshot", a |-> 0, b |-> 0, val |-> s.parents,
                   pre |-> <<>>]
        /\ UNCHANGED <<selVars, runVars, gate, recon>>

\* d.restore(s) for the snapshot s captured earlier; ret.pre records the
\* parent array the restore replaced
CallRestore ==
    /\ snaps # <<>>
    /\ dsu' = DSURestore(dsu, snaps[1].parents)
    /\ ret' = [op |-> "restore", a |-> 0, b |-> 0, val |-> <<>>,
               pre |-> dsu.parent]
    /\ UNCHANGED <<snaps, selVars, runVars, gate, recon>>

NextDSU ==
    \/ \E a, b \in Idx : CallUnion(a, b)
    \/ \E x \in Idx : CallFind(x)
    \/ CallGroups
    \/ \E keep \in BOOLEAN : CallSnapshot(keep)
    \/ CallRestore

SpecDSU == InitDSU /\ [][NextDSU]_vars

\* the representative find gives for x in DSU d
Root(d, x) == DSUFind(d, x).r

\* the partition of the universe that find induces in DSU d
PartitionOf(d) ==
    {{y \in DOMAIN d.parent : Root(d, y) = Root(d, x)} : x \in DOMAIN d.parent}

\* the positions of id x in the member lists of a groups() result
Occurrences(g, x) ==
    {<<r, k>> \in (DOMAIN g) \X (1 .. NumItems) : k \in DOMAIN g[r] /\ g[r][k] = x}

\* C1: union(a,b) returns true exactly when find(a) != find(b) held before
\* the call; after a call that returned true find(a) = find(b); and an
\* immediately repeated union(a,b) returns false and leaves the partition
\* unchanged.
C1_UnionContract ==
    ret.op = "union" =>
        LET again == DSUUnion(dsu, ret.a, ret.b)
        IN  /\ ret.val = ret.pre
            /\ (ret.val => Root(dsu, ret.a) = Root(dsu, ret.b))
            /\ again.ok = FALSE
            /\ PartitionOf(again.dsu) = PartitionOf(dsu)

\* a union that returned true and joined two sets into one of three or more
C1_Witness ==
    /\ ret.op = "union"
    /\ ret.val = TRUE
    /\ ret.a # ret.b
    /\ Cardinality({y \in Idx : Root(dsu, y) = Root(dsu, ret.a)}) >= 3

\* C2: groups() is a partition of the whole universe: every id is in
\* exactly one member list exactly once, no member list is empty, and two
\* ids share a member list exactly when find gives them the same
\* representative.
C2_GroupsPartition ==
    LET g == DSUGroups(dsu).res
    IN  /\ \A x \in Idx : Cardinality(Occurrences(g, x)) = 1
        /\ \A r \in DOMAIN g : Len(g[r]) > 0
        /\ \A x, y \in Idx :
              (\E r \in DOMAIN g : \E k1, k2 \in DOMAIN g[r] :
                    g[r][k1] = x /\ g[r][k2] = y)
              <=> Root(dsu, x) = Root(dsu, y)

\* groups() was called on a DSU with a merged set next to another set
C2_Witness ==
    /\ ret.op = "groups"
    /\ Cardinality(DOMAIN ret.val) >= 2
    /\ \E r \in DOMAIN ret.val : Len(ret.val[r]) >= 2

\* C3: restore(s) of a captured snapshot s, also after further unions and
\* finds, makes groups() return the mapping groups() returned when s was
\* captured (same representatives, same member lists).
C3_SnapshotRestore ==
    ret.op = "restore" => DSUGroups(dsu).res = snaps[1].groups

\* a restore that undid unions made after the snapshot was captured
C3_Witness ==
    /\ ret.op = "restore"
    /\ PartitionOf([dsu EXCEPT !.parent = ret.pre]) # PartitionOf(dsu)
    /\ \E r \in DOMAIN snaps[1].groups : Len(snaps[1].groups[r]) >= 2

\* C4: find(x) returns a root r, find(r) = r, a second find(x) returns r
\* again, and the call changes the representative of no id.
C4_FindIdempotent ==
    [][ret'.op = "find" =>
         LET x == ret'.a
             r == ret'.val
         IN  /\ dsu'.parent[r] = r
             /\ Root(dsu', r) = r
             /\ Root(dsu', x) = r
             /\ DSUFind(DSUFind(dsu, x).dsu, DSUFind(dsu, x).r).r = r
             /\ \A y \in Idx : Root(dsu', y) = Root(dsu, y)]_dsuVars

\* find(x) on an id whose parent was not a root: the path was halved
C4_Witness ==
    /\ ret.op = "find"
    /\ ret.pre # ret.a
    /\ ret.pre # ret.val
    /\ dsu.parent[ret.a] = ret.val

----------------------------------------------------------------------------
(* backend/app/utils.py: select_topk_above_threshold *)

\* number of rows of the similarity matrix handed to the selector
SelN == 4

\* -np.inf, written on the diagonal of S before selection
NegInf == -1000000

\* scores[mask], js[mask]: the columns j > i of row i with S[i][j] >= tau,
\* in column order, from column j on
RECURSIVE MaskRow(_, _, _, _, _)
MaskRow(S, n, i, j, tau) ==
    IF j >= n
    THEN <<>>
    ELSE (IF S[i][j] >= tau THEN <<[j |-> j, sc |-> S[i][j]]>> ELSE <<>>)
         \o MaskRow(S, n, i, j + 1, tau)

\* the order np.argsort(-scores) and np.argpartition(-scores, k) put two
\* entries in: higher score first; numpy leaves the order of equal scores
\* to its sorting routine, which is a fixed function of the input, taken
\* here as lower column first (tie = "low") or higher column first
Before(a, b, tie) ==
    \/ a.sc > b.sc
    \/ a.sc = b.sc /\ (IF tie = "low" THEN a.j < b.j ELSE a.j > b.j)

\* insert entry e into the descending sequence s
RECURSIVE InsertDesc(_, _, _)
InsertDesc(s, e, tie) ==
    IF s = <<>> THEN <<e>>
    ELSE IF Before(e, Head(s), tie) THEN <<e>> \o s
    ELSE <<Head(s)>> \o InsertDesc(Tail(s), e, tie)

\* np.argsort(-scores) applied to the entries s
RECURSIVE SortDesc(_, _)
SortDesc(s, tie) ==
    IF s = <<>> THEN <<>>
    ELSE InsertDesc(SortDesc(Tail(s), tie), Head(s), tie)

\* row loop that keeps topk + 1 entries of a capped row
SelectRow_OffByOne(S, n, i, tau, topk, tie) ==
    LET m == MaskRow(S, n, i, i + 1, tau)
    IN  IF Len(m) = 0 THEN <<>>
        ELSE IF topk > 0 /\ Len(m) > topk
             THEN SubSeq(SortDesc(m, tie), 1, topk + 1)
             ELSE SortDesc(m, tie)

\* the body of the row loop: the entries row i yields, in yield order
SelectRow(S, n, i, tau, topk, tie) ==
    LET m == MaskRow(S, n, i, i + 1, tau)
    IN  IF Len(m) = 0 THEN <<>>
        ELSE IF topk > 0 /\ Len(m) > topk
             THEN SubSeq(SortDesc(m, tie), 1, topk)
             ELSE SortDesc(m, tie)

\* the generator from row i on: (i, j, score) triples in yield order
RECURSIVE SelectFrom(_, _, _, _, _, _)
SelectFrom(S, n, i, tau, topk, tie) ==
    IF i >= n
    THEN <<>>
    ELSE LET row == SelectRow(S, n, i, tau, topk, tie)
         IN  [k \in 1 .. Len(row) |-> <<i, row[k].j, row[k].sc>>]
             \o SelectFrom(S, n, i + 1, tau, topk, tie)

\* select_topk_above_threshold(S, tau, topk)
SelectTopK(S, n, tau, topk, tie) == SelectFrom(S, n, 0, tau, topk, tie)

----------------------------------------------------------------------------
(* The selector applied to similarity matrices *)

SelScores == {1, 2, 3}
SelTaus == {2, 3}
SelTopKs == {0, 1, 2}
TieOrders == {"low", "high"}

UpperPairs(n) == {p \in (0 .. (n - 1)) \X (0 .. (n - 1)) : p[1] < p[2]}

\* the symmetric matrix with upper triangle up and -inf on the diagonal
SymMatrix(n, up) ==
    [i \in 0 .. (n - 1) |->
        [j \in 0 .. (n - 1) |->
            IF i = j THEN NegInf
            ELSE IF i < j THEN up[<<i, j>>] ELSE up[<<j, i>>]]]

InitSelect ==
    /\ \E up \in [UpperPairs(SelN) -> SelScores] :
       \E tau \in SelTaus : \E topk \in SelTopKs :
          selIn = [S |-> SymMatrix(SelN, up), n |-> SelN, tau |-> tau,
                   topk |-> topk, called |-> FALSE]
    /\ tieOrder \in TieOrders
    /\ selOut = <<>>
    /\ dsu = DSUInit(0)
    /\ snaps = <<>>
    /\ ret = NoRet
    /\ graph = <<>>
    /\ req = <<>>
    /\ run = <<>>
    /\ nruns = 0
    /\ current = <<>>
    /\ results = <<>>
    /\ reply = <<>>
    /\ gate = <<>>
    /\ recon = <<>>

CallSelect ==
    /\ ~selIn.called
    /\ selOut' = SelectTopK(selIn.S, selIn.n, selIn.tau, selIn.topk, tieOrder)
    /\ selIn' = [selIn EXCEPT !.called = TRUE]
    /\ UNCHANGED <<dsuVars, graph, req, tieOrder, run, nruns, current, results,
                   reply, gate, recon>>

NextSelect == CallSelect

SpecSelect == InitSelect /\ [][NextSelect]_vars

\* C10: candidate selection returns no self-pair and no unordered pair
\* twice, every returned pair has i < j and score >= tau, and with a
\* per-row cap k > 0 no row contributes more than k partners.
C10_SelectBoundary ==
    selIn.called =>
        /\ \A k \in DOMAIN selOut :
              /\ selOut[k][1] # selOut[k][2]
              /\ selOut[k][1] < selOut[k][2]
              /\ selOut[k][3] >= selIn.tau
              /\ selOut[k][3] = selIn.S[selOut[k][1]][selOut[k][2]]
        /\ \A k1, k2 \in DOMAIN selOut :
              k1 # k2 => {selOut[k1][1], selOut[k1][2]} # {selOut[k2][1], selOut[k2][2]}
        /\ selIn.topk > 0 =>
              \A i \in 0 .. (selIn.n - 1) :
                 Cardinality({k \in DOMAIN selOut : selOut[k][1] = i}) <= selIn.topk

\* the cap took effect: a row with more than k columns at or above tau
\* yielded exactly k pairs
C10_Witness ==
    /\ selIn.called
    /\ selIn.topk > 0
    /\ \E i \in 0 .. (selIn.n - 1) :
          /\ Cardinality({j \in (i + 1) .. (selIn.n - 1) : selIn.S[i][j] >= selIn.tau})
                > selIn.topk
          /\ Cardinality({k \in DOMAIN selOut : selOut[k][1] = i}) = selIn.topk

\* the unordered pairs a selector output holds
PairSet(out) == {{out[k][1], out[k][2]} : k \in DOMAIN out}

\* the matrix S with its indices in reverse order
ReverseIndices(S, n) ==
    [i \in 0 .. (n - 1) |-> [j \in 0 .. (n - 1) |-> S[n - 1 - i][n - 1 - j]]]

\* no row of S has two columns at or above tau with the same score
NoRowTies(S, n, tau) ==
    \A i, j1, j2 \in 0 .. (n - 1) :
       (j1 # j2 /\ j1 # i /\ j2 # i /\ S[i][j1] >= tau) => S[i][j1] # S[i][j2]

\* C11: with a per-row cap k > 0 a selected pair {i, j} is among the k
\* highest-scoring columns of the whole row i or of the whole row j (fewer
\* than k columns of that row score higher), and the selected set of
\* unordered pairs does not depend on the index order: selecting on the
\* matrix with reversed indices gives the same pairs
C11_SymmetricTopK ==
    (selIn.called /\ selIn.topk > 0) =>
        /\ \A k \in DOMAIN selOut :
              LET i == selOut[k][1]
                  j == selOut[k][2]
                  Higher(r, c) == {x \in (0 .. (selIn.n - 1)) \ {r} :
                                     selIn.S[r][x] > selIn.S[r][c]}
              IN  \/ Cardinality(Higher(i, j)) < selIn.topk
                  \/ Cardinality(Higher(j, i)) < selIn.topk
        /\ NoRowTies(selIn.S, selIn.n, selIn.tau) =>
              PairSet(SelectTopK(ReverseIndices(selIn.S, selIn.n), selIn.n,
                                 selIn.tau, selIn.topk, tieOrder))
                = {{selIn.n - 1 - selOut[k][1], selIn.n - 1 - selOut[k][2]} :
                      k \in DOMAIN selOut}

----------------------------------------------------------------------------
(* Numbers and strings *)

\* Floats are held as integers: similarity scores and tau_sim in units of
\* 1/Scale, the gate metrics, alpha and beta in units of 1/GateScale, edge
\* weights in units of 1/WScale.
Scale == 100
GateScale == 10000
WScale == 10

\* ord("|"), the separator of the sort key f"{u}|{v}"
Bar == 124

\* Python's str < str on strings held as sequences of character codes
RECURSIVE LexLess(_, _)
LexLess(s, t) ==
    IF s = <<>> THEN t # <<>>
    ELSE IF t = <<>> THEN FALSE
    ELSE IF Head(s) # Head(t) THEN Head(s) < Head(t)
    ELSE LexLess(Tail(s), Tail(t))

\* l[i] of a Python list held as a sequence
At(l, i) == l[i + 1]

\* largest r in lo..hi with r * r <= n
RECURSIVE ISqrtIn(_, _, _)
ISqrtIn(n, lo, hi) ==
    IF lo >= hi THEN lo
    ELSE LET mid == (lo + hi + 1) \div 2
         IN  IF mid * mid <= n THEN ISqrtIn(n, mid, hi) ELSE ISqrtIn(n, lo, mid - 1)

ISqrt(n) == ISqrtIn(n, 0, n)

RECURSIVE SumSeq(_)
SumSeq(s) == IF s = <<>> THEN 0 ELSE Head(s) + SumSeq(Tail(s))

\* x @ y for two rows of the same length
Dot(x, y) == SumSeq([k \in 1 .. Len(x) |-> x[k] * y[k]])

----------------------------------------------------------------------------
(* backend/app/models.py *)

\* Optional values are sequences: <<>> is None, <<v>> is the value v.
None == <<>>
Some(v) == <<v>>

\* [f(e) for e in s if keep(e)]
FilterMap(s, keep(_), f(_)) ==
    LET F[k \in 0 .. Len(s)] ==
            IF k = 0 THEN <<>>
            ELSE F[k - 1] \o (IF keep(s[k]) THEN <<f(s[k])>> ELSE <<>>)
    IN  F[Len(s)]

\* the position of the last node with id i: {n.id: n for n in nodes} keeps
\* the last node of an id
LastWithId(nodes, i) ==
    CHOOSE k \in DOMAIN nodes :
        /\ nodes[k].id = i
        /\ \A k2 \in DOMAIN nodes : nodes[k2].id = i => k2 <= k

\* sorted(set) for a set of integers
RECURSIVE SortedSeq(_)
SortedSeq(S) ==
    IF S = {} THEN <<>>
    ELSE LET m == CHOOSE x \in S : \A y \in S : x <= y
         IN  <<m>> \o SortedSeq(S \ {m})

\* Graph.__post_init__ / Graph.build_indices
BuildIndices(nodes, edges) ==
    LET ids == {nodes[k].id : k \in DOMAIN nodes}
    IN  [nodes       |-> nodes,
         edges       |-> edges,
         node_by_id  |-> [i \in ids |-> nodes[LastWithId(nodes, i)]],
         outgoing    |-> [i \in ids |->
                            FilterMap(edges, LAMBDA e : e.source = i, LAMBDA e : e)],
         incoming    |-> [i \in ids |->
                            FilterMap(edges, LAMBDA e : e.target = i, LAMBDA e : e)],
         feature_ids |-> FilterMap(nodes, LAMBDA n : n.type = "feature", LAMBDA n : n.id),
         token_ids   |-> FilterMap(nodes, LAMBDA n : n.type = "token", LAMBDA n : n.id),
         logit_ids   |-> FilterMap(nodes, LAMBDA n : n.type = "logit", LAMBDA n : n.id),
         layers      |-> SortedSeq({nodes[k].layer[1] :
                                      k \in {k2 \in DOMAIN nodes : nodes[k2].layer # None}})]

\* Graph.layer_of
LayerOf(g, node_id) ==
    IF node_id \in DOMAIN g.node_by_id THEN g.node_by_id[node_id].layer ELSE None

----------------------------------------------------------------------------
(* backend/app/loader.py *)

\* _delta_logit_vectors_from_meta with a zero row for a feature without a
\* stored vector
DeltaLogitVectorsFromMeta_ZeroFill(g) ==
    LET vecs == [k \in DOMAIN g.feature_ids |-> g.node_by_id[g.feature_ids[k]].meta]
    IN  IF vecs = <<>> THEN [kind |-> "raise"]
        ELSE [kind |-> "matrix",
              X |-> [k \in DOMAIN vecs |->
                       IF vecs[k] = None THEN <<0, 0>> ELSE vecs[k][1].vec]]

\* _delta_logit_vectors_from_meta.  A node's meta is None (no vector under
\* any of the accepted keys) or Some([ndim, vec]), the array stored there
\* with its number of dimensions.  The result is "none" (the function
\* returns None), "matrix" with the stacked rows X, or "raise": np.vstack
\* of an empty list, for a graph without feature nodes, raises ValueError.
DeltaLogitVectorsFromMeta(g) ==
    LET vecs == [k \in DOMAIN g.feature_ids |-> g.node_by_id[g.feature_ids[k]].meta]
        given == {k \in DOMAIN vecs : vecs[k] # None}
        first == CHOOSE k \in given : \A k2 \in given : k <= k2
    IN  IF \E k \in given : \/ vecs[k][1].ndim # 1
                             \/ Len(vecs[k][1].vec) # Len(vecs[first][1].vec)
        THEN [kind |-> "none"]
        ELSE IF given # DOMAIN vecs THEN [kind |-> "none"]
        ELSE IF given = {} THEN [kind |-> "raise"]
        ELSE [kind |-> "matrix", X |-> [k \in DOMAIN vecs |-> vecs[k][1].vec]]

\* the adjacency row of feature fid over the columns cols: the summed
\* weights of its outgoing edges whose target is a column
AdjacencyRow(g, fid, cols) ==
    [c \in 1 .. Len(cols) |->
        SumSeq(FilterMap(IF fid \in DOMAIN g.outgoing THEN g.outgoing[fid] ELSE <<>>,
                         LAMBDA e : e.target = cols[c], LAMBDA e : e.weight))]

\* build_fingerprints.  X holds the rows before L2 normalisation and
\* normalized tells whether utils.l2_normalize_rows was applied to them:
\* a normalised row is its raw row divided by its norm (a zero row stays
\* zero), which the similarity operators below account for.  raised tells
\* that the call ended in an exception.
BuildFingerprints(g, fingerprint_source, normalize_fingerprints, layer_whitelist) ==
    LET feature_ids == g.feature_ids
        feature_layers == [k \in DOMAIN feature_ids |-> LayerOf(g, feature_ids[k])]
        inWl(k) == \/ layer_whitelist = None
                   \/ /\ feature_layers[k] # None
                      /\ feature_layers[k][1] \in layer_whitelist[1]
        sel_idx == FilterMap([k \in DOMAIN feature_ids |-> k - 1],
                             LAMBDA i : inWl(i + 1), LAMBDA i : i)
        sel_fids == [k \in DOMAIN sel_idx |-> At(feature_ids, sel_idx[k])]
        sel_layers == [k \in DOMAIN sel_idx |-> At(feature_layers, sel_idx[k])]
        X_full == IF fingerprint_source = "delta_logit"
                  THEN DeltaLogitVectorsFromMeta(g) ELSE [kind |-> "none"]
        cols == IF Len(g.logit_ids) = 0 THEN g.token_ids ELSE g.logit_ids
    IN  IF X_full.kind = "raise"
        THEN [raised |-> TRUE, fids |-> <<>>, X |-> <<>>, layers |-> <<>>,
              normalized |-> FALSE]
        ELSE IF X_full.kind = "matrix"
        THEN [raised |-> FALSE,
              fids |-> sel_fids,
              X |-> [k \in DOMAIN sel_idx |-> At(X_full.X, sel_idx[k])],
              layers |-> sel_layers,
              normalized |-> normalize_fingerprints]
        ELSE [raised |-> FALSE,
              fids |-> sel_fids,
              X |-> [k \in DOMAIN sel_fids |-> AdjacencyRow(g, sel_fids[k], cols)],
              layers |-> sel_layers,
              normalized |-> normalize_fingerprints]

----------------------------------------------------------------------------
(* backend/app/utils.py: similarity and the pair hash *)

\* the product of the rows x and y without the division by their norms
CosScore_NoNorm(x, y) == (Scale * Dot(x, y)) \div (WScale * WScale)

\* the cosine of rows x and y in units of 1/Scale, rounded toward zero; a
\* row of norm zero is divided by eps and stays zero
CosScore(x, y) ==
    LET d == Dot(x, y)
        m == Dot(x, x) * Dot(y, y)
    IN  IF m = 0 THEN 0
        ELSE LET r == ISqrt((Scale * Scale * d * d) \div m)
             IN  IF d >= 0 THEN r ELSE 0 - r

\* the dot product of raw rows x and y in units of 1/Scale
DotScore(x, y) == (Scale * Dot(x, y)) \div (WScale * WScale)

\* cosine_similarity_matrix / dot_similarity_matrix over the rows X: the
\* dot metric on rows that build_fingerprints normalised is their cosine
SimilarityValues(X, metric, normalized) ==
    [i \in 0 .. (Len(X) - 1) |->
        [j \in 0 .. (Len(X) - 1) |->
            IF metric = "cosine" \/ normalized
            THEN CosScore(At(X, i), At(X, j))
            ELSE DotScore(At(X, i), At(X, j))]]

\* sha256 is not computed: the digest of f"{seed}:{a}|{b}" is replaced by
\* a fixed mixing of the seed and the characters of a and b
RECURSIVE Mix(_, _)
Mix(acc, s) == IF s = <<>> THEN acc ELSE Mix((acc * 31 + Head(s)) % 9973, Tail(s))

\* number of values the hash fraction takes
HashRes == 100

\* a hash salted by the number of runs made, as a per-call salt would do
StablePairHash_RunSalted(u, v, seed) ==
    LET a == IF LexLess(v, u) THEN v ELSE u
        b == IF LexLess(v, u) THEN u ELSE v
    IN  Mix(Mix(Mix((seed + 7 * nruns) % 9973, <<58>>), a), <<Bar>> \o b) % HashRes

\* stable_pair_hash: a fraction in [0, 1) in units of 1/HashRes, the same
\* for (u, v) and (v, u)
StablePairHash(u, v, seed) ==
    LET a == IF LexLess(v, u) THEN v ELSE u
        b == IF LexLess(v, u) THEN u ELSE v
    IN  Mix(Mix(Mix(seed % 9973, <<58>>), a), <<Bar>> \o b) % HashRes

----------------------------------------------------------------------------
(* backend/app/pipeline.py *)

\* d.setdefault(key, []).append(i) on a dict held in insertion order as a
\* sequence of [key, val] entries
ODictAppend(d, key, i) ==
    IF \E k \in DOMAIN d : d[k].key = key
    THEN [k \in DOMAIN d |->
            IF d[k].key = key THEN [d[k] EXCEPT !.val = Append(@, i)] ELSE d[k]]
    ELSE Append(d, [key |-> key, val |-> <<i>>])

\* _group_by_layer with one group for all features
GroupByLayer_OneGroup(layers) ==
    IF layers = <<>> THEN <<>>
    ELSE <<[key |-> 0, val |-> [k \in DOMAIN layers |-> k - 1]]>>

\* _group_by_layer: layer key (-1 for None) -> indices, in insertion order
GroupByLayer(layers) ==
    LET F[k \in 0 .. Len(layers)] ==
            IF k = 0 THEN <<>>
            ELSE ODictAppend(F[k - 1],
                             IF layers[k] = None THEN -1 ELSE layers[k][1],
                             k - 1)
    IN  F[Len(layers)]

\* _similarity_matrix accepts the metric
KnownMetric(metric) == metric \in {"cosine", "dot"}

\* np.fill_diagonal(S, -np.inf)
FillDiagonal(S) ==
    [i \in DOMAIN S |-> [j \in DOMAIN S[i] |-> IF i = j THEN NegInf ELSE S[i][j]]]

\* _apply_gates: None, or Some of the metrics (mean_corr, ce_gap) of a pair
\* that passes.  mean_corr = 0.9 + 0.1 * h and ce_gap = 0.02 * (1 - h) in
\* units of 1/GateScale, for h in units of 1/HashRes.
GateMeanCorr(h) == (9 * GateScale) \div 10 + ((GateScale \div 10) * h) \div HashRes

GateCeGap(h) == (((2 * GateScale) \div 100) * (HashRes - h)) \div HashRes

\* _apply_gates without the test of ce_gap against beta
ApplyGates_CorrOnly(u, v, score, layer, seed, alpha, beta) ==
    LET h == StablePairHash(u, v, seed)
        mean_corr == GateMeanCorr(h)
        ce_gap == GateCeGap(h)
    IN  IF mean_corr >= alpha
        THEN Some([mean_corr |-> mean_corr, ce_gap |-> ce_gap])
        ELSE None

ApplyGates(u, v, score, layer, seed, alpha, beta) ==
    LET h == StablePairHash(u, v, seed)
        mean_corr == GateMeanCorr(h)
        ce_gap == GateCeGap(h)
    IN  IF mean_corr >= alpha /\ ce_gap <= beta
        THEN Some([mean_corr |-> mean_corr, ce_gap |-> ce_gap])
        ELSE None

\* the sort key of a pair: (-score, f"{u}|{v}")
PairKey(fids, idxs, t) ==
    At(fids, At(idxs, t[1])) \o <<Bar>> \o At(fids, At(idxs, t[2]))

PairBefore(fids, idxs, a, b) ==
    \/ a[3] > b[3]
    \/ a[3] = b[3] /\ LexLess(PairKey(fids, idxs, a), PairKey(fids, idxs, b))

\* pairs.sort(key=...): list.sort is stable, so a pair goes behind the
\* pairs it does not precede
RECURSIVE InsertPair(_, _, _, _)
InsertPair(fids, idxs, s, e) ==
    IF s = <<>> THEN <<e>>
    ELSE IF PairBefore(fids, idxs, e, Head(s)) THEN <<e>> \o s
    ELSE <<Head(s)>> \o InsertPair(fids, idxs, Tail(s), e)

SortPairs(fids, idxs, pairs) ==
    LET F[k \in 0 .. Len(pairs)] ==
            IF k = 0 THEN <<>>
            ELSE InsertPair(fids, idxs, F[k - 1], pairs[k])
    IN  F[Len(pairs)]

\* the pairs select_topk_above_threshold yields for one layer, in the order
\* it yields them
LayerSelected(fp, idxs, rq, tie) ==
    LET Xl == [k \in DOMAIN idxs |-> At(fp.X, idxs[k])]
        S == FillDiagonal(SimilarityValues(Xl, rq.similarity_metric, fp.normalized))
    IN  SelectTopK(S, Len(idxs), rq.tau_sim, rq.topk_candidates_per_node, tie)

\* the candidate list of one layer cut to its first selected pair
LayerPairs_First(fp, idxs, rq, tie) ==
    LET sel == LayerSelected(fp, idxs, rq, tie)
    IN  IF sel = <<>> THEN [count |-> 0, pairs |-> <<>>]
        ELSE [count |-> 1, pairs |-> <<sel[1]>>]

\* the candidate list of one layer: selection, cap, then sort
LayerPairs(fp, idxs, rq, tie) ==
    LET sel == LayerSelected(fp, idxs, rq, tie)
        capped == IF rq.max_pairs_per_layer > 0 /\ Len(sel) > rq.max_pairs_per_layer
                  THEN SubSeq(sel, 1, rq.max_pairs_per_layer)
                  ELSE sel
    IN  [count |-> Len(capped), pairs |-> SortPairs(fp.fids, idxs, capped)]

\* the merge limit taking effect one event late
MergeCapReached_Late(rq, merge_log) ==
    rq.max_merges > 0 /\ Len(merge_log) > rq.max_merges

\* req.max_merges and req.max_merges > 0 and len(merge_log) >= req.max_merges
MergeCapReached(rq, merge_log) ==
    rq.max_merges > 0 /\ Len(merge_log) >= rq.max_merges

\* _build_groups_from_parents: root -> member indices, in insertion order
BuildGroupsFromParents(parents) ==
    LET n == Cardinality(DOMAIN parents)
        F[k \in 0 .. n] ==
            IF k = 0 THEN <<>> ELSE ODictAppend(F[k - 1], parents[k - 1], k - 1)
    IN  F[n]

\* Ls = {layer of i for i in members if not None}; L = list(Ls)[0] if Ls
\* else -1.  A set of small non-negative ints lists in ascending order.
GroupLayer(state, members) ==
    LET Ls == {At(state.feature_layers, members[k])[1] :
                 k \in {k2 \in DOMAIN members :
                           At(state.feature_layers, members[k2]) # None}}
    IN  IF Ls = {} THEN -1 ELSE CHOOSE x \in Ls : \A y \in Ls : x <= y

\* f"super|{L}|{gid}"
SuperId(L, gid) == <<"super", L, gid>>

\* the acc dict of _aggregate_edges_to_logits for one group: logit target ->
\* summed weight over the members' outgoing edges, in insertion order
GroupAcc(state, members) ==
    LET g == state.graph
        logits == {g.logit_ids[k] : k \in DOMAIN g.logit_ids}
        out(i) == IF At(state.feature_ids, i) \in DOMAIN g.outgoing
                  THEN g.outgoing[At(state.feature_ids, i)] ELSE <<>>
        AddEdge(acc, e) ==
            IF e.target \notin logits THEN acc
            ELSE IF \E k \in DOMAIN acc : acc[k].key = e.target
            THEN [k \in DOMAIN acc |->
                    IF acc[k].key = e.target
                    THEN [acc[k] EXCEPT !.val = @ + e.weight] ELSE acc[k]]
            ELSE Append(acc, [key |-> e.target, val |-> e.weight])
        AddEdges(acc, es) ==
            LET E[k \in 0 .. Len(es)] ==
                    IF k = 0 THEN acc ELSE AddEdge(E[k - 1], es[k])
            IN  E[Len(es)]
        M[k \in 0 .. Len(members)] ==
            IF k = 0 THEN <<>> ELSE AddEdges(M[k - 1], out(members[k]))
    IN  M[Len(members)]

Abs(x) == IF x < 0 THEN 0 - x ELSE x

\* _aggregate_edges_to_logits
AggregateEdgesToLogits(state, groups, edge_threshold) ==
    LET GroupEdges(gr) ==
            FilterMap(GroupAcc(state, gr.val),
                      LAMBDA a : Abs(a.val) >= edge_threshold,
                      LAMBDA a : [source |-> SuperId(GroupLayer(state, gr.val), gr.key),
                                  target |-> a.key, weight |-> a.val])
        F[k \in 0 .. Len(groups)] ==
            IF k = 0 THEN <<>> ELSE F[k - 1] \o GroupEdges(groups[k])
    IN  F[Len(groups)]

\* the parent array snapshot(state, step) works on; error tells that
\* state.parent_snapshots[-1] raised IndexError on an empty list
SnapshotParents(state, step) ==
    LET n == Len(state.parent_snapshots)
    IN  IF step <= 0
        THEN [error |-> FALSE,
              parents |-> [i \in 0 .. (Len(state.feature_ids) - 1) |-> i]]
        ELSE IF step >= n
        THEN (IF n = 0 THEN [error |-> TRUE, parents |-> <<>>]
              ELSE [error |-> FALSE, parents |-> state.parent_snapshots[n]])
        ELSE [error |-> FALSE, parents |-> state.parent_snapshots[step]]

\* snapshot(state, step, edge_opacity_threshold); cr and mean_group_size
\* are held as fractions [num, den]
Snapshot(state, step, edge_opacity_threshold) ==
    LET sp == SnapshotParents(state, step)
        groups == BuildGroupsFromParents(sp.parents)
        num_groups == Len(groups)
        total_size == SumSeq([k \in DOMAIN groups |-> Len(groups[k].val)])
    IN  IF sp.error
        THEN [error |-> TRUE]
        ELSE [error  |-> FALSE,
              step   |-> step,
              cr     |-> IF num_groups > 0
                         THEN [num |-> Len(state.feature_ids), den |-> num_groups]
                         ELSE [num |-> 1, den |-> 1],
              nodes  |-> [k \in DOMAIN groups |->
                            [id      |-> SuperId(GroupLayer(state, groups[k].val),
                                                 groups[k].key),
                             members |-> [m \in DOMAIN groups[k].val |->
                                            At(state.feature_ids, groups[k].val[m])],
                             layer   |-> GroupLayer(state, groups[k].val),
                             size    |-> Len(groups[k].val)]],
              edges  |-> AggregateEdgesToLogits(state, groups, edge_opacity_threshold),
              groups |-> [k \in DOMAIN groups |->
                            [id    |-> SuperId(GroupLayer(state, groups[k].val),
                                               groups[k].key),
                             size  |-> Len(groups[k].val),
                             layer |-> GroupLayer(state, groups[k].val)]],
              metrics |-> [mean_group_size |->
                               IF num_groups > 0
                               THEN [num |-> total_size, den |-> num_groups]
                               ELSE [num |-> 0, den |-> 1],
                           num_groups |-> num_groups]]

----------------------------------------------------------------------------
(* backend/app/services/supernode_reconstruction.py: the fidelity gate *)

\* n * (x - mean(x)): the deviations np.corrcoef works on, times n
Centered(x) == [k \in 1 .. Len(x) |-> Len(x) * x[k] - SumSeq(x)]

\* np.var(x) > 0
HasVariance(x) == \E k \in 1 .. Len(x) : x[k] # x[1]

\* np.corrcoef(x, y)[0, 1] in units of 1/GateScale
Pearson(x, y) == CosScore(Centered(x), Centered(y)) * (GateScale \div Scale)

\* the correlation fidelity_gate computes for two fingerprints; np.allclose
\* of two constant vectors is their equality
FidelityCorrelation(fp1, fp2) ==
    IF Len(fp1.fingerprint) = Len(fp2.fingerprint) /\ Len(fp1.fingerprint) >= 2
    THEN IF HasVariance(fp1.fingerprint) /\ HasVariance(fp2.fingerprint)
         THEN Pearson(fp1.fingerprint, fp2.fingerprint)
         ELSE IF fp1.fingerprint = fp2.fingerprint THEN GateScale ELSE 0
    ELSE 0

\* ce_gap = abs(fp1.original_influence - fp2.original_influence)
FidelityCeGap(fp1, fp2) == Abs(fp1.original_influence - fp2.original_influence)

\* self.fingerprints[node_id]
FingerprintOf(fingerprints, node_id) ==
    fingerprints[CHOOSE k \in DOMAIN fingerprints : fingerprints[k].node_id = node_id]

\* SupernodeReconstructor.fidelity_gate: the candidates that pass
FidelityGate(candidates, fingerprints, alpha, beta) ==
    FilterMap(candidates,
              LAMBDA c :
                 LET fp1 == FingerprintOf(fingerprints, c.node1_id)
                     fp2 == FingerprintOf(fingerprints, c.node2_id)
                     corr_pass == FidelityCorrelation(fp1, fp2) >= alpha
                     ce_pass == FidelityCeGap(fp1, fp2) <= beta
                 IN  corr_pass /\ ce_pass,
              LAMBDA c : c)

\* the fingerprints of a reconstructor over nodes "n0", "n1", ...: vectors
\* over three logits, each held as an integer vector of its direction, and
\* influences in units of 1/GateScale
GateFingerprints ==
    <<[node_id |-> <<110, 48>>, fingerprint |-> <<1, 2, 3>>, original_influence |-> 0],
      [node_id |-> <<110, 49>>, fingerprint |-> <<1, 3, 2>>, original_influence |-> 0],
      [node_id |-> <<110, 50>>, fingerprint |-> <<1, 2, 3>>, original_influence |-> 6000],
      [node_id |-> <<110, 51>>, fingerprint |-> <<1, 1, 1>>, original_influence |-> 1000],
      [node_id |-> <<110, 52>>, fingerprint |-> <<1, 1, 1>>, original_influence |-> 3000],
      [node_id |-> <<110, 53>>, fingerprint |-> <<0, 0, 0>>, original_influence |-> 0]>>

\* a MergeCandidate for every pair of those nodes
GateCandidates ==
    LET n == Len(GateFingerprints)
        all == [k \in 1 .. (n * n) |-> <<((k - 1) \div n) + 1, ((k - 1) % n) + 1>>]
    IN  FilterMap(all,
                  LAMBDA p : p[1] < p[2],
                  LAMBDA p : [node1_id |-> GateFingerprints[p[1]].node_id,
                              node2_id |-> GateFingerprints[p[2]].node_id,
                              similarity |-> CosScore(GateFingerprints[p[1]].fingerprint,
                                                      GateFingerprints[p[2]].fingerprint),
                              layer |-> "0"])

\* ReconstructionConfig: the defaults (alpha 0.80, beta 0.50), a lower alpha,
\* a higher beta
GateConfigs ==
    {[alpha |-> 8000, beta |-> 5000],
     [alpha |-> 4000, beta |-> 5000],
     [alpha |-> 8000, beta |-> 10000]}

NoGate == [alpha |-> 0, beta |-> 0, candidates |-> <<>>, out |-> <<>>, called |-> FALSE]

\* a call of fidelity_gate on a reconstructor configured with cfg; gate is
\* the call's result on its way to the caller
CallFidelityGate(cfg) ==
    /\ gate = NoGate
    /\ gate' = [alpha |-> cfg.alpha, beta |-> cfg.beta,
                candidates |-> GateCandidates,
                out |-> FidelityGate(GateCandidates, GateFingerprints,
                                     cfg.alpha, cfg.beta),
                called |-> TRUE]
    /\ UNCHANGED <<dsuVars, selVars, runVars, recon>>

\* the caller takes the result
GateTaken ==
    /\ gate # NoGate
    /\ gate' = NoGate
    /\ UNCHANGED <<dsuVars, selVars, runVars, recon>>

----------------------------------------------------------------------------
(* The pipeline as a state machine: POST /api/run executes run_pipeline on
   the loaded graph step by step, GET /api/replay reads the current run *)

\* number of feature nodes of the loaded graph
NumFeatures == 3

\* number of run_pipeline calls made on the loaded graph
MaxRuns == 2

\* largest step asked of /api/replay: no merge log is longer
MaxStep == NumFeatures - 1

\* node ids "f0", "f1", ... and "l0", "l1"
FeatureId(p) == <<102, 48 + p>>
LogitId(j) == <<108, 48 + j>>

\* the shapes a feature node takes: its layer, the weights of its edges to
\* the logits l0 and l1, and the vector stored in its meta
FeaturePool ==
    {[layer |-> Some(0), w |-> <<10, 0>>, meta |-> Some([ndim |-> 1, vec |-> <<10, 0>>])],
     [layer |-> Some(0), w |-> <<9, 1>>,  meta |-> Some([ndim |-> 1, vec |-> <<0, 10>>])],
     [layer |-> None,    w |-> <<10, 0>>, meta |-> None]}

\* the graph with feature nodes f0.. of the shapes fs, the logit nodes l0
\* and l1, and an edge for every non-zero weight
GraphOf(fs) ==
    LET fnodes == [p \in 1 .. Len(fs) |->
                     [id |-> FeatureId(p - 1), type |-> "feature",
                      layer |-> fs[p].layer, meta |-> fs[p].meta]]
        lnodes == [j \in 1 .. 2 |->
                     [id |-> LogitId(j - 1), type |-> "logit",
                      layer |-> None, meta |-> None]]
        fedges(p) == FilterMap([j \in 1 .. 2 |-> j],
                               LAMBDA j : fs[p].w[j] # 0,
                               LAMBDA j : [source |-> FeatureId(p - 1),
                                           target |-> LogitId(j - 1),
                                           weight |-> fs[p].w[j]])
        E[p \in 0 .. Len(fs)] == IF p = 0 THEN <<>> ELSE E[p - 1] \o fedges(p)
    IN  BuildIndices(fnodes \o lnodes, E[Len(fs)])

\* RunRequest() with the defaults of schemas.py
DefaultRequest ==
    [tau_sim |-> 98, alpha |-> 9000, beta |-> 500, layer_whitelist |-> None,
     gate_enabled |-> TRUE, similarity_metric |-> "cosine",
     fingerprint_source |-> "adjacency", normalize_fingerprints |-> TRUE,
     topk_candidates_per_node |-> 50, max_pairs_per_layer |-> 100000,
     max_merges |-> 0, min_group_size_postfilter |-> 1, seed |-> 123]

\* the requests a client holds: the defaults with one setting changed
Requests ==
    {DefaultRequest,
     [DefaultRequest EXCEPT !.alpha = 9500],
     [DefaultRequest EXCEPT !.beta = 100],
     [DefaultRequest EXCEPT !.gate_enabled = FALSE],
     [DefaultRequest EXCEPT !.topk_candidates_per_node = 1],
     [DefaultRequest EXCEPT !.max_merges = 1],
     [DefaultRequest EXCEPT !.tau_sim = 0]}

\* the requests of the calls a client holding rq makes: rq itself, or rq
\* with a metric _similarity_matrix does not know
CallRequests(rq) == {rq, [rq EXCEPT !.similarity_metric = "jaccard"]}

\* the order numpy leaves equal scores in shows only where a row is cut to
\* its top k or the candidate list is cut to max_pairs_per_layer
TieMatters(rq) ==
    \/ rq.topk_candidates_per_node > 0 /\ rq.topk_candidates_per_node < NumFeatures - 1
    \/ rq.max_pairs_per_layer < (NumFeatures * (NumFeatures - 1)) \div 2

\* edge_opacity_threshold = 0.1, the default of /api/replay
DefaultEdgeThreshold == 1

\* the locals of run_pipeline; pc is the position of the call
IdleRun ==
    [pc |-> "idle", req |-> req, fp |-> <<>>, layer_to_indices |-> <<>>, li |-> 1, L |-> 0,
     idxs |-> <<>>, pairs |-> <<>>, dsu |-> DSUInit(0), merge_log |-> <<>>,
     parent_snapshots |-> <<>>, total_candidates |-> 0]

NoReply == [status |-> 0, step |-> 0, snap |-> <<>>]

InitRun ==
    /\ \E fs \in [1 .. NumFeatures -> FeaturePool] : graph = GraphOf(fs)
    /\ req \in Requests
    /\ tieOrder \in (IF TieMatters(req) THEN TieOrders ELSE {"low"})
    /\ run = IdleRun
    /\ nruns = 0
    /\ current = None
    /\ results = <<>>
    /\ reply = NoReply
    /\ gate = NoGate
    /\ recon = <<>>
    /\ dsu = DSUInit(0)
    /\ snaps = <<>>
    /\ ret = NoRet
    /\ selIn = <<>>
    /\ selOut = <<>>

\* run_pipeline clearing _CURRENT_RUN when it starts
RunStart_ClearsPointer(rq) ==
    /\ run.pc \in {"idle", "done", "raised"}
    /\ nruns < MaxRuns
    /\ nruns' = nruns + 1
    /\ LET fp == BuildFingerprints(graph, rq.fingerprint_source,
                                   rq.normalize_fingerprints, rq.layer_whitelist)
       IN  run' = IF fp.raised
                  THEN [IdleRun EXCEPT !.pc = "raised", !.req = rq]
                  ELSE [IdleRun EXCEPT !.pc = "layer",
                                       !.req = rq,
                                       !.fp = fp,
                                       !.layer_to_indices = GroupByLayer(fp.layers),
                                       !.dsu = DSUInit(Len(fp.fids))]
    /\ current' = None
    /\ UNCHANGED <<dsuVars, selVars, graph, req, tieOrder, results, reply, gate, recon>>

\* run_pipeline up to the layer loop: fingerprints, layer groups, DSU
RunStart(rq) ==
    /\ run.pc \in {"idle", "done", "raised"}
    /\ nruns < MaxRuns
    /\ nruns' = nruns + 1
    /\ LET fp == BuildFingerprints(graph, rq.fingerprint_source,
                                   rq.normalize_fingerprints, rq.layer_whitelist)
       IN  run' = IF fp.raised
                  THEN [IdleRun EXCEPT !.pc = "raised", !.req = rq]
                  ELSE [IdleRun EXCEPT !.pc = "layer",
                                       !.req = rq,
                                       !.fp = fp,
                                       !.layer_to_indices = GroupByLayer(fp.layers),
                                       !.dsu = DSUInit(Len(fp.fids))]
    /\ UNCHANGED <<dsuVars, selVars, graph, req, tieOrder, current, results, reply, gate, recon>>

\* the layer loop without the count of the candidates
RunLayer_NoCount ==
    /\ run.pc = "layer"
    /\ IF run.li > Len(run.layer_to_indices)
       THEN run' = [run EXCEPT !.pc = "publish"]
       ELSE LET ent == run.layer_to_indices[run.li]
            IN  IF Len(ent.val) < 2
                THEN run' = [run EXCEPT !.li = @ + 1]
                ELSE IF ~KnownMetric(run.req.similarity_metric)
                THEN run' = [IdleRun EXCEPT !.pc = "raised", !.req = run.req]
                ELSE LET lp == LayerPairs(run.fp, ent.val, run.req, tieOrder)
                     IN  run' = [run EXCEPT !.pc = "cand",
                                            !.li = @ + 1,
                                            !.L = ent.key,
                                            !.idxs = ent.val,
                                            !.pairs = lp.pairs,
                                            !.total_candidates = @]
    /\ UNCHANGED <<dsuVars, selVars, graph, req, tieOrder, nruns, current, results, reply, gate, recon>>

\* the head of the layer loop: leave it, skip a layer with fewer than two
\* features, raise on an unknown metric, or build the layer's candidates
RunLayer ==
    /\ run.pc = "layer"
    /\ IF run.li > Len(run.layer_to_indices)
       THEN run' = [run EXCEPT !.pc = "publish"]
       ELSE LET ent == run.layer_to_indices[run.li]
            IN  IF Len(ent.val) < 2
                THEN run' = [run EXCEPT !.li = @ + 1]
                ELSE IF ~KnownMetric(run.req.similarity_metric)
                THEN run' = [IdleRun EXCEPT !.pc = "raised", !.req = run.req]
                ELSE LET lp == LayerPairs(run.fp, ent.val, run.req, tieOrder)
                     IN  run' = [run EXCEPT !.pc = "cand",
                                            !.li = @ + 1,
                                            !.L = ent.key,
                                            !.idxs = ent.val,
                                            !.pairs = lp.pairs,
                                            !.total_candidates = @ + lp.count]
    /\ UNCHANGED <<dsuVars, selVars, graph, req, tieOrder, nruns, current, results, reply, gate, recon>>

\* the candidate loop storing the live parent list instead of a copy: every
\* stored snapshot shows the latest parents
RunCandidate_AliasedSnapshots ==
    /\ run.pc = "cand"
    /\ IF run.pairs = <<>>
       THEN run' = [run EXCEPT !.pc = IF MergeCapReached(run.req, run.merge_log)
                                      THEN "publish" ELSE "layer"]
       ELSE LET t  == Head(run.pairs)
                ui == At(run.idxs, t[1])
                vi == At(run.idxs, t[2])
                u  == At(run.fp.fids, ui)
                v  == At(run.fp.fids, vi)
                fu == DSUFind(run.dsu, ui)
                fv == DSUFind(fu.dsu, vi)
                r  == IF run.req.gate_enabled
                      THEN ApplyGates(u, v, t[3], run.L, run.req.seed,
                                      run.req.alpha, run.req.beta)
                      ELSE Some([mean_corr |-> GateScale, ce_gap |-> 0])
                un == DSUUnion(fv.dsu, ui, vi)
                sn == DSUSnapshot(un.dsu)
                me == [u |-> u, v |-> v, score |-> t[3], layer |-> run.L,
                       mean_corr |-> r[1].mean_corr, ce_gap |-> r[1].ce_gap]
            IN  IF fu.r = fv.r \/ r = None
                THEN run' = [run EXCEPT !.dsu = fv.dsu, !.pairs = Tail(@)]
                ELSE IF ~un.ok
                THEN run' = [run EXCEPT !.dsu = un.dsu, !.pairs = Tail(@)]
                ELSE run' = [run EXCEPT
                               !.dsu = sn.dsu,
                               !.pairs = Tail(@),
                               !.merge_log = Append(@, me),
                               !.parent_snapshots = [k \in 1 .. (Len(@) + 1) |-> sn.parents],
                               !.pc = IF MergeCapReached(run.req, Append(run.merge_log, me))
                                      THEN "publish" ELSE "cand"]
    /\ UNCHANGED <<dsuVars, selVars, graph, req, tieOrder, nruns, current, results, reply, gate, recon>>

\* one iteration of the candidate loop, or its end
RunCandidate ==
    /\ run.pc = "cand"
    /\ IF run.pairs = <<>>
       THEN run' = [run EXCEPT !.pc = IF MergeCapReached(run.req, run.merge_log)
                                      THEN "publish" ELSE "layer"]
       ELSE LET t  == Head(run.pairs)
                ui == At(run.idxs, t[1])
                vi == At(run.idxs, t[2])
                u  == At(run.fp.fids, ui)
                v  == At(run.fp.fids, vi)
                fu == DSUFind(run.dsu, ui)
                fv == DSUFind(fu.dsu, vi)
                r  == IF run.req.gate_enabled
                      THEN ApplyGates(u, v, t[3], run.L, run.req.seed,
                                      run.req.alpha, run.req.beta)
                      ELSE Some([mean_corr |-> GateScale, ce_gap |-> 0])
                un == DSUUnion(fv.dsu, ui, vi)
                sn == DSUSnapshot(un.dsu)
                me == [u |-> u, v |-> v, score |-> t[3], layer |-> run.L,
                       mean_corr |-> r[1].mean_corr, ce_gap |-> r[1].ce_gap]
            IN  IF fu.r = fv.r \/ r = None
                THEN run' = [run EXCEPT !.dsu = fv.dsu, !.pairs = Tail(@)]
                ELSE IF ~un.ok
                THEN run' = [run EXCEPT !.dsu = un.dsu, !.pairs = Tail(@)]
                ELSE run' = [run EXCEPT
                               !.dsu = sn.dsu,
                               !.pairs = Tail(@),
                               !.merge_log = Append(@, me),
                               !.parent_snapshots = Append(@, sn.parents),
                               !.pc = IF MergeCapReached(run.req, Append(run.merge_log, me))
                                      THEN "publish" ELSE "cand"]
    /\ UNCHANGED <<dsuVars, selVars, graph, req, tieOrder, nruns, current, results, reply, gate, recon>>

\* the RunState run_pipeline builds at its end
BuildRunState(r, groupsDsu) ==
    [graph |-> graph, params |-> r.req,
     feature_ids |-> r.fp.fids, feature_layers |-> r.fp.layers, X |-> r.fp.X,
     dsu |-> groupsDsu, layer_to_indices |-> r.layer_to_indices,
     candidates_count |-> r.total_candidates,
     merge_log |-> r.merge_log, parent_snapshots |-> r.parent_snapshots]

\* the end of run_pipeline: stats, RunState, _CURRENT_RUN = state, return
RunPublish ==
    /\ run.pc = "publish"
    /\ LET state == BuildRunState(run, DSUGroups(run.dsu).dsu)
       IN  /\ current' = Some(state)
           /\ results' = Append(results, state)
    /\ run' = [IdleRun EXCEPT !.pc = "done", !.req = run.req]
    /\ UNCHANGED <<dsuVars, selVars, graph, req, tieOrder, nruns, reply, gate, recon>>

\* a replay whose snapshot takes the last stored parent snapshot off the
\* list of the current run
ApiReplay_TrimsSnapshots(step) ==
    /\ reply = NoReply
    /\ IF current = None
       THEN /\ reply' = [status |-> 400, step |-> step, snap |-> <<>>]
            /\ current' = current
       ELSE LET sn == Snapshot(current[1], step, DefaultEdgeThreshold)
            IN  /\ reply' = [status |-> IF sn.error THEN 500 ELSE 200,
                             step |-> step, snap |-> sn]
                /\ current' = Some([current[1] EXCEPT !.parent_snapshots =
                                        SubSeq(@, 1, Len(@) - 1)])
    /\ UNCHANGED <<dsuVars, selVars, graph, req, tieOrder, run, nruns, results, gate, recon>>

\* GET /api/replay?step=...: 400 without a current run, else the snapshot
\* (500 when snapshot raises); reply is the response on its way to the client
ApiReplay(step) ==
    /\ reply = NoReply
    /\ IF current = None
       THEN reply' = [status |-> 400, step |-> step, snap |-> <<>>]
       ELSE LET sn == Snapshot(current[1], step, DefaultEdgeThreshold)
            IN  reply' = [status |-> IF sn.error THEN 500 ELSE 200,
                          step |-> step, snap |-> sn]
    /\ UNCHANGED <<dsuVars, selVars, graph, req, tieOrder, run, nruns, current, results, gate, recon>>

\* the client takes the response
ReplyTaken ==
    /\ reply # NoReply
    /\ reply' = NoReply
    /\ UNCHANGED <<dsuVars, selVars, graph, req, tieOrder, run, nruns, current, results, gate, recon>>

NextRun ==
    \/ \E rq \in CallRequests(req) : RunStart(rq)
    \/ RunLayer
    \/ RunCandidate
    \/ RunPublish
    \/ \E step \in 0 .. MaxStep : ApiReplay(step)
    \/ ReplyTaken

Spec == InitRun /\ [][NextRun]_vars

\* the runs of the pipeline next to calls of the fidelity gate of the
\* supernode service
NextGates ==
    \/ \E rq \in CallRequests(req) : RunStart(rq)
    \/ RunLayer
    \/ RunCandidate
    \/ RunPublish
    \/ \E cfg \in GateConfigs : CallFidelityGate(cfg)
    \/ GateTaken

SpecGates == InitRun /\ [][NextGates]_vars

----------------------------------------------------------------------------
(* Claims about the pipeline *)

Min(a, b) == IF a <= b THEN a ELSE b

\* the grouping of the feature ids after the first k merges of the log,
\* replayed from singletons
PartitionAfter(state, k) ==
    LET P[m \in 0 .. k] ==
            IF m = 0
            THEN {{At(state.feature_ids, i)} : i \in 0 .. (Len(state.feature_ids) - 1)}
            ELSE LET e  == state.merge_log[m]
                     bu == CHOOSE b \in P[m - 1] : e.u \in b
                     bv == CHOOSE b \in P[m - 1] : e.v \in b
                 IN  (P[m - 1] \ {bu, bv}) \cup {bu \cup bv}
    IN  P[k]

\* the grouping a snapshot shows: the member sets of its nodes
SnapPartition(snap) ==
    {{snap.nodes[k].members[m] : m \in DOMAIN snap.nodes[k].members} :
        k \in DOMAIN snap.nodes}

\* a / b <= c / d for fractions held as [num, den]
FracLeq(x, y) == x.num * y.den <= y.num * x.den

\* C5: two runs of run_pipeline on the same graph with the same request
\* return the same merge log, event by event, and the same snapshot at every
\* step 0 .. len(log); stated where a run returns, over all runs returned
C5_Determinism ==
    [][Len(results') > Len(results) =>
         \A i \in 1 .. Len(results') :
            LET a == results'[i]
                b == results'[Len(results')]
            IN  a.params = b.params =>
                  /\ a.merge_log = b.merge_log
                  /\ \A step \in 0 .. Len(a.merge_log) :
                        Snapshot(a, step, DefaultEdgeThreshold)
                          = Snapshot(b, step, DefaultEdgeThreshold)]_vars

\* two runs with the same gate-enabled request have returned, with two
\* merges in the log
C5_Witness ==
    /\ Len(results) = 2
    /\ results[1].params = results[2].params
    /\ results[1].params.gate_enabled
    /\ Len(results[2].merge_log) = 2

\* C6: for every published RunState, also one with an empty merge log, and
\* every step >= 0, snapshot(state, step) returns without error the grouping
\* after min(step, len(merge_log)) merges
C6_SnapshotAtStep ==
    (reply # NoReply /\ reply.status # 400) =>
        /\ reply.status = 200
        /\ ~reply.snap.error
        /\ SnapPartition(reply.snap)
             = PartitionAfter(current[1],
                              Min(reply.step, Len(current[1].merge_log)))

\* C7: for every published RunState and steps s <= t, num_groups of
\* snapshot(s) >= num_groups of snapshot(t) >= num_groups of the final step,
\* and cr of snapshot(s) <= cr of snapshot(t); t is the step of the reply
C7_Monotone ==
    (reply # NoReply /\ reply.status # 400) =>
        \A s \in 0 .. reply.step :
           LET a == Snapshot(current[1], s, DefaultEdgeThreshold)
               b == reply.snap
               f == Snapshot(current[1], Len(current[1].merge_log),
                             DefaultEdgeThreshold)
           IN  /\ ~a.error /\ ~b.error /\ ~f.error
               /\ a.metrics.num_groups >= b.metrics.num_groups
               /\ b.metrics.num_groups >= f.metrics.num_groups
               /\ FracLeq(a.cr, b.cr)

\* C8: fidelity_gate keeps a candidate iff its correlation >= alpha and its
\* ce_gap <= beta, _apply_gates admits the candidate at hand iff its
\* mean_corr >= alpha and its ce_gap <= beta, an admitted pair is rejected
\* once alpha is above its metric, and every event in the log of a
\* gate-enabled run has mean_corr >= alpha and ce_gap <= beta
C8_GateAdmission ==
    /\ gate.called =>
          \A k \in DOMAIN gate.candidates :
             LET c   == gate.candidates[k]
                 fp1 == FingerprintOf(GateFingerprints, c.node1_id)
                 fp2 == FingerprintOf(GateFingerprints, c.node2_id)
                 admitted == \E m \in DOMAIN gate.out : gate.out[m] = c
             IN  /\ admitted <=> (/\ FidelityCorrelation(fp1, fp2) >= gate.alpha
                                  /\ FidelityCeGap(fp1, fp2) <= gate.beta)
                 /\ admitted =>
                       FidelityGate(<<c>>, GateFingerprints,
                                    FidelityCorrelation(fp1, fp2) + 1, gate.beta) = <<>>
    /\ (run.pc = "cand" /\ run.pairs # <<>>) =>
          LET t == Head(run.pairs)
              u == At(run.fp.fids, At(run.idxs, t[1]))
              v == At(run.fp.fids, At(run.idxs, t[2]))
              h == StablePairHash(u, v, run.req.seed)
              r == ApplyGates(u, v, t[3], run.L, run.req.seed,
                              run.req.alpha, run.req.beta)
          IN  /\ r # None <=> (/\ GateMeanCorr(h) >= run.req.alpha
                               /\ GateCeGap(h) <= run.req.beta)
              /\ r # None =>
                    /\ r[1] = [mean_corr |-> GateMeanCorr(h), ce_gap |-> GateCeGap(h)]
                    /\ ApplyGates(u, v, t[3], run.L, run.req.seed,
                                  r[1].mean_corr + 1, run.req.beta) = None
    /\ run.req.gate_enabled =>
          \A k \in DOMAIN run.merge_log :
             /\ run.merge_log[k].mean_corr >= run.req.alpha
             /\ run.merge_log[k].ce_gap <= run.req.beta
    /\ \A i \in DOMAIN results :
          results[i].params.gate_enabled =>
             \A k \in DOMAIN results[i].merge_log :
                /\ results[i].merge_log[k].mean_corr >= results[i].params.alpha
                /\ results[i].merge_log[k].ce_gap <= results[i].params.beta

\* fidelity_gate has kept some candidates and dropped others, and a
\* gate-enabled run with a merge in its log has a candidate at hand that
\* _apply_gates rejects
C8_Witness ==
    /\ gate.called
    /\ gate.out # <<>>
    /\ Len(gate.out) < Len(gate.candidates)
    /\ run.pc = "cand"
    /\ run.req.gate_enabled
    /\ run.merge_log # <<>>
    /\ run.pairs # <<>>
    /\ LET t == Head(run.pairs)
       IN  ApplyGates(At(run.fp.fids, At(run.idxs, t[1])),
                      At(run.fp.fids, At(run.idxs, t[2])),
                      t[3], run.L, run.req.seed, run.req.alpha, run.req.beta) = None

\* C9: _CURRENT_RUN changes only in the last step of a run that succeeded,
\* to the RunState that run returns; a run that raises leaves it; at every
\* moment it is None or the complete RunState some finished run returned,
\* with a merge log and a snapshot list of equal length, and a replay
\* answers 400 exactly when it is None
C9_PublishOnSuccess ==
    [][/\ current' # current =>
            /\ run.pc = "publish"
            /\ run'.pc = "done"
            /\ Len(results') = Len(results) + 1
            /\ current' = Some(results'[Len(results')])
       /\ run'.pc = "raised" => current' = current
       /\ current' # None =>
            /\ \E i \in DOMAIN results' : results'[i] = current'[1]
            /\ Len(current'[1].merge_log) = Len(current'[1].parent_snapshots)
       /\ (reply' # reply /\ reply' # NoReply) =>
            (reply'.status = 400 <=> current = None)]_vars

\* a second run has raised after a first run published a RunState with a
\* merge, and a replay made meanwhile got a snapshot
C9_Witness ==
    /\ run.pc = "raised"
    /\ nruns = 2
    /\ current # None
    /\ current[1].merge_log # <<>>
    /\ reply.status = 200

\* the fingerprints with their rows (ids, vectors, layers) in the order p
PermuteFp(fp, p) ==
    [fp EXCEPT !.fids = [k \in DOMAIN fp.fids |-> fp.fids[p[k]]],
               !.X = [k \in DOMAIN fp.X |-> fp.X[p[k]]],
               !.layers = [k \in DOMAIN fp.layers |-> fp.layers[p[k]]]]

\* the indices _group_by_layer gives layer L
LayerIndices(layers, L) ==
    LET d == GroupByLayer(layers)
    IN  d[CHOOSE k \in DOMAIN d : d[k].key = L].val

\* the candidates of a layer in processing order, each as the set of its
\* two node ids
ProcessingOrder(fp, idxs, rq, tie) ==
    LET pairs == LayerPairs(fp, idxs, rq, tie).pairs
    IN  [k \in DOMAIN pairs |->
           {At(fp.fids, At(idxs, pairs[k][1])), At(fp.fids, At(idxs, pairs[k][2]))}]

\* the smaller and the larger of the two ids of a pair
LowId(ids) == CHOOSE u \in ids : \A v \in ids : u = v \/ LexLess(u, v)
HighId(ids) == CHOOSE u \in ids : \A v \in ids : u = v \/ LexLess(v, u)

\* C12: the candidates of a layer are processed in descending score order,
\* equal scores in the lexicographic order of the pair's two node ids, and
\* that order is the same for every order of the features in the input
\* arrays
C12_ProcessingOrder ==
    run.pc = "cand" =>
        LET pairs == LayerPairs(run.fp, run.idxs, run.req, tieOrder).pairs
            order == ProcessingOrder(run.fp, run.idxs, run.req, tieOrder)
        IN  /\ \A k \in 1 .. (Len(pairs) - 1) :
                  \/ pairs[k][3] > pairs[k + 1][3]
                  \/ /\ pairs[k][3] = pairs[k + 1][3]
                     /\ \/ LexLess(LowId(order[k]), LowId(order[k + 1]))
                        \/ /\ LowId(order[k]) = LowId(order[k + 1])
                           /\ LexLess(HighId(order[k]), HighId(order[k + 1]))
            /\ \A p \in Permutations(DOMAIN run.fp.fids) :
                  LET fp2 == PermuteFp(run.fp, p)
                  IN  ProcessingOrder(fp2, LayerIndices(fp2.layers, run.L),
                                      run.req, tieOrder) = order


----------------------------------------------------------------------------
(* Runs on small and degenerate graphs under the settings of the tests *)

\* the shapes of the feature nodes of these graphs: A and B of layer 0 are
\* nearly parallel, C of layer 0 points elsewhere, D is a feature of layer 1
ScenarioPool ==
    {[layer |-> Some(0), w |-> <<10, 0>>, meta |-> Some([ndim |-> 1, vec |-> <<10, 0>>])],
     [layer |-> Some(0), w |-> <<9, 1>>,  meta |-> Some([ndim |-> 1, vec |-> <<9, 1>>])],
     [layer |-> Some(0), w |-> <<0, 10>>, meta |-> None],
     [layer |-> Some(1), w |-> <<10, 0>>, meta |-> None]}

\* the graph with feature nodes of the shapes fs and nl logit nodes, with
\* the edges of the features to the logits there are, or with no edge
GraphWith(fs, nl, edged) ==
    LET fnodes == [p \in 1 .. Len(fs) |->
                     [id |-> FeatureId(p - 1), type |-> "feature",
                      layer |-> fs[p].layer, meta |-> fs[p].meta]]
        lnodes == [j \in 1 .. nl |->
                     [id |-> LogitId(j - 1), type |-> "logit",
                      layer |-> None, meta |-> None]]
        fedges(p) == FilterMap([j \in 1 .. nl |-> j],
                               LAMBDA j : edged /\ fs[p].w[j] # 0,
                               LAMBDA j : [source |-> FeatureId(p - 1),
                                           target |-> LogitId(j - 1),
                                           weight |-> fs[p].w[j]])
        E[p \in 0 .. Len(fs)] == IF p = 0 THEN <<>> ELSE E[p - 1] \o fedges(p)
    IN  BuildIndices(fnodes \o lnodes, E[Len(fs)])

\* a graph without nodes, without feature nodes, without edges, and
\* without logit nodes
DegenerateGraphs ==
    LET fs == [p \in 1 .. NumFeatures |->
                 [layer |-> Some(0), w |-> <<10, 0>>, meta |-> None]]
    IN  {GraphWith(<<>>, 0, TRUE), GraphWith(<<>>, 2, TRUE),
         GraphWith(fs, 2, FALSE), GraphWith(fs, 0, TRUE)}

\* a graph whose features are each alone in their layer
SpreadGraph ==
    GraphWith([p \in 1 .. NumFeatures |->
                 [layer |-> Some(p), w |-> <<10, 0>>, meta |-> None]], 2, TRUE)

\* a graph with two features of layer 0 followed by two features without a
\* layer
PairedGraph ==
    GraphWith(<<[layer |-> Some(0), w |-> <<10, 0>>, meta |-> None],
                [layer |-> Some(0), w |-> <<10, 0>>, meta |-> None],
                [layer |-> None,    w |-> <<10, 0>>, meta |-> None],
                [layer |-> None,    w |-> <<10, 0>>, meta |-> None]>>, 2, TRUE)

\* graphs with a single logit node
OneLogitGraphs ==
    {GraphWith(fs, 1, TRUE) :
       fs \in [1 .. NumFeatures -> {[layer |-> Some(0), w |-> <<10>>, meta |-> None],
                                    [layer |-> Some(1), w |-> <<5>>, meta |-> None]}]}

\* feature nodes whose stored vector differs from their adjacency row, has
\* another length, or is not one-dimensional, and a feature of layer 1
\* without a stored vector
MetaPool ==
    {[layer |-> Some(0), w |-> <<10, 0>>, meta |-> Some([ndim |-> 1, vec |-> <<0, 10>>])],
     [layer |-> Some(0), w |-> <<9, 1>>,  meta |-> Some([ndim |-> 1, vec |-> <<1, 2, 3>>])],
     [layer |-> Some(0), w |-> <<10, 0>>, meta |-> Some([ndim |-> 2, vec |-> <<0, 10>>])],
     [layer |-> Some(1), w |-> <<10, 0>>, meta |-> None]}

MetaGraphs ==
    {GraphWith(fs, 2, TRUE) : fs \in [1 .. NumFeatures -> MetaPool]}

\* graphs with an edge whose target, or whose source, is the id "x0" of no
\* node, as normalize_nodes_edges leaves an endpoint it cannot map
DanglingGraphs ==
    LET g == GraphWith([p \in 1 .. NumFeatures |->
                          [layer |-> Some(0), w |-> <<10, 0>>, meta |-> None]], 2, TRUE)
        x0 == <<120, 48>>
    IN  {BuildIndices(g.nodes, g.edges \o <<[source |-> FeatureId(0), target |-> x0,
                                             weight |-> 10]>>),
         BuildIndices(g.nodes, g.edges \o <<[source |-> x0, target |-> LogitId(0),
                                             weight |-> 10]>>)}

ScenarioGraphs ==
    {GraphWith(fs, 2, TRUE) : fs \in [1 .. NumFeatures -> ScenarioPool]}
        \cup DegenerateGraphs \cup {SpreadGraph, PairedGraph} \cup OneLogitGraphs
        \cup MetaGraphs \cup DanglingGraphs

\* the request of tests/test_pipeline_basic.py with the gate of
\* tests/test_gating.py that lets every pair pass
TestRequest ==
    [DefaultRequest EXCEPT !.alpha = 0, !.beta = GateScale,
                           !.topk_candidates_per_node = 1,
                           !.max_pairs_per_layer = 0]

ScenarioRequests ==
    {TestRequest,
     [DefaultRequest EXCEPT !.max_pairs_per_layer = 1],
     [DefaultRequest EXCEPT !.max_merges = 1],
     [DefaultRequest EXCEPT !.max_merges = 2],
     [DefaultRequest EXCEPT !.fingerprint_source = "delta_logit"],
     [DefaultRequest EXCEPT !.fingerprint_source = "delta_logit",
                            !.layer_whitelist = Some({0})],
     [DefaultRequest EXCEPT !.similarity_metric = "jaccard"]}

\* the calls a client holding rq makes: rq, or rq without its merge limit
ScenarioCalls(rq) == {rq, [rq EXCEPT !.max_merges = 0]}

InitScenarios ==
    /\ graph \in ScenarioGraphs
    /\ req \in ScenarioRequests
    /\ tieOrder \in (IF TieMatters(req) THEN TieOrders ELSE {"low"})
    /\ run = IdleRun
    /\ nruns = 0
    /\ current = None
    /\ results = <<>>
    /\ reply = NoReply
    /\ gate = NoGate
    /\ recon = <<>>
    /\ dsu = DSUInit(0)
    /\ snaps = <<>>
    /\ ret = NoRet
    /\ selIn = <<>>
    /\ selOut = <<>>

NextScenarios ==
    \/ \E rq \in ScenarioCalls(req) : RunStart(rq)
    \/ RunLayer
    \/ RunCandidate
    \/ RunPublish

SpecScenarios == InitScenarios /\ [][NextScenarios]_vars

\* the pairs of sel that are not among kept
Dropped(sel, kept) ==
    FilterMap(sel, LAMBDA t : \A k \in DOMAIN kept : kept[k] # t, LAMBDA t : t)

\* C13: when max_pairs_per_layer = m > 0 and a layer has more than m
\* selected pairs, the m candidates kept are the first m in descending
\* score order: every kept candidate scores at least as high as every
\* dropped one
C13_CapKeepsBest ==
    (run.pc = "cand" /\ run.req.max_pairs_per_layer > 0) =>
        LET m    == run.req.max_pairs_per_layer
            sel  == LayerSelected(run.fp, run.idxs, run.req, tieOrder)
            kept == LayerPairs(run.fp, run.idxs, run.req, tieOrder).pairs
            drop == Dropped(sel, kept)
        IN  Len(sel) > m =>
                /\ Len(kept) = m
                /\ \E k \in 1 .. (Len(kept) + 1) : run.pairs = SubSeq(kept, k, Len(kept))
                /\ \A k \in DOMAIN kept : \A d \in DOMAIN drop : kept[k][3] >= drop[d][3]

\* the first k entries of the list s, or all of them if there are fewer
Prefix(s, k) == SubSeq(s, 1, Min(k, Len(s)))

\* C14: with max_merges = m > 0 the log never holds more than m events, and
\* the finished run's log and snapshots are the first m (or all, if fewer)
\* of those of the run of the same request with max_merges = 0; a run with
\* max_merges = 0 ends only when every layer and candidate was processed
C14_MergeLimitPrefix ==
    /\ run.req.max_merges > 0 => Len(run.merge_log) <= run.req.max_merges
    /\ (run.pc = "publish" /\ run.req.max_merges = 0) =>
            /\ run.li > Len(run.layer_to_indices)
            /\ run.pairs = <<>>
    /\ \A a, b \in DOMAIN results :
          LET m == results[a].params.max_merges
          IN  (m > 0 /\ results[b].params = [results[a].params EXCEPT !.max_merges = 0]) =>
                /\ Len(results[a].merge_log) <= m
                /\ results[a].merge_log = Prefix(results[b].merge_log, m)
                /\ results[a].parent_snapshots = Prefix(results[b].parent_snapshots, m)

\* a limited run that was cut short next to the unlimited run of the same
\* request
C14_Witness ==
    \E a, b \in DOMAIN results :
        /\ results[a].params.max_merges > 0
        /\ results[b].params = [results[a].params EXCEPT !.max_merges = 0]
        /\ Len(results[b].merge_log) > results[a].params.max_merges
        /\ Len(results[a].merge_log) = results[a].params.max_merges

\* the features of state with the adjacency row w
WithRow(state, w) ==
    {At(state.feature_ids, k - 1) : k \in {k2 \in DOMAIN state.X : state.X[k2] = w}}

\* state is a run of the test request on three features of layer 0 of
\* which A = (1, 0) and B = (0.9, 0.1) are nearly parallel and C = (0, 1)
\* diverges
TinyGraphRun(state) ==
    /\ state.params = TestRequest
    /\ Len(state.feature_ids) = 3
    /\ \A k \in DOMAIN state.feature_layers : state.feature_layers[k] = Some(0)
    /\ \A w \in {<<10, 0>>, <<9, 1>>, <<0, 10>>} : Cardinality(WithRow(state, w)) = 1

\* C15: on three features of one layer and two logits where A and B have
\* nearly identical weights and C diverges, the run with tau_sim 0.98,
\* top-k 1, cosine and the gate at alpha 0.0, beta 1.0 has exactly one merge
\* event, between A and B, and its final snapshot has exactly two groups,
\* of sizes 2 and 1
C15_TinyGraph ==
    \A i \in DOMAIN results :
        TinyGraphRun(results[i]) =>
            LET st == results[i]
                sn == Snapshot(st, Len(st.merge_log), DefaultEdgeThreshold)
            IN  /\ Len(st.merge_log) = 1
                /\ {st.merge_log[1].u, st.merge_log[1].v}
                       = WithRow(st, <<10, 0>>) \cup WithRow(st, <<9, 1>>)
                /\ \A k \in DOMAIN st.merge_log :
                       WithRow(st, <<0, 10>>) \cap {st.merge_log[k].u, st.merge_log[k].v} = {}
                /\ ~sn.error
                /\ sn.metrics.num_groups = 2
                /\ Len(sn.groups) = 2
                /\ {sn.groups[1].size, sn.groups[2].size} = {1, 2}

\* the run on the graph of the test, with A, B, C in this order, is done
C15_Witness ==
    \E i \in DOMAIN results :
        /\ TinyGraphRun(results[i])
        /\ results[i].X = <<(<<10, 0>>), (<<9, 1>>), (<<0, 10>>)>>
        /\ results[i].candidates_count >= 1

\* the candidates of the run r counted so far that are neither in the
\* merge log nor still to be processed
Unmerged(r) == r.total_candidates - Len(r.merge_log) - Len(r.pairs)

\* _apply_gates on the pair t of the layer at hand of the run r
GateOn(r, t) ==
    ApplyGates(At(r.fp.fids, At(r.idxs, t[1])), At(r.fp.fids, At(r.idxs, t[2])),
               t[3], r.L, r.req.seed, r.req.alpha, r.req.beta)

\* the candidate at hand of the run r reaches the gate and is rejected
RejectedAtHand(r) ==
    /\ r.pc = "cand"
    /\ r.pairs # <<>>
    /\ r.req.gate_enabled
    /\ LET t  == Head(r.pairs)
           fu == DSUFind(r.dsu, At(r.idxs, t[1]))
           fv == DSUFind(fu.dsu, At(r.idxs, t[2]))
       IN  fu.r # fv.r
    /\ GateOn(r, Head(r.pairs)) = None

\* C16: a candidate the gate rejects stays counted as a candidate and adds
\* no event to the merge log; no logged pair is one the gate rejects; at
\* every step of a run and in the RunState it returns the accepted count is
\* <= the candidate count, and smaller by at least the number of
\* rejections; fidelity_gate passes no more candidates than were proposed,
\* and fewer when it rejects one
C16_RejectedCounted ==
    [][/\ (RejectedAtHand(run) /\ run' # run) =>
              /\ run'.merge_log = run.merge_log
              /\ run'.total_candidates = run.total_candidates
              /\ Unmerged(run') > Unmerged(run)
       /\ (run.pc \in {"idle", "done", "raised"} /\ run'.pc = "layer") =>
              Unmerged(run') = 0
       /\ (run.pc \in {"layer", "cand"} /\ run'.pc \in {"layer", "cand", "publish"}) =>
              /\ Unmerged(run') >= Unmerged(run)
              /\ Len(run'.merge_log) <= run'.total_candidates
       /\ (run'.pc = "cand" /\ run'.req.gate_enabled) =>
              \A k \in DOMAIN run'.merge_log :
                  LET e == run'.merge_log[k]
                  IN  ApplyGates(e.u, e.v, e.score, e.layer, run'.req.seed,
                                 run'.req.alpha, run'.req.beta) # None
       /\ (run.pc = "publish" /\ current' # current) =>
              /\ Len(current'[1].merge_log) <= current'[1].candidates_count
              /\ current'[1].candidates_count - Len(current'[1].merge_log) >= Unmerged(run)
       /\ (gate' # gate /\ gate'.called) =>
              /\ Len(gate'.out) <= Len(gate'.candidates)
              /\ (\E k \in DOMAIN gate'.candidates :
                     FidelityGate(<<gate'.candidates[k]>>, GateFingerprints,
                                  gate'.alpha, gate'.beta) = <<>>)
                    => Len(gate'.out) < Len(gate'.candidates)
      ]_vars

\* a run returned a RunState with a merge in its log after the gate had
\* rejected a candidate, and fidelity_gate has rejected a candidate
C16_Witness ==
    /\ run.pc = "publish"
    /\ run.req.gate_enabled
    /\ run.merge_log # <<>>
    /\ Unmerged(run) > 0
    /\ \E t \in {run.fp.fids[a] : a \in DOMAIN run.fp.fids}
               \X {run.fp.fids[a] : a \in DOMAIN run.fp.fids} :
          /\ t[1] # t[2]
          /\ \A k \in DOMAIN run.merge_log :
                {run.merge_log[k].u, run.merge_log[k].v} # {t[1], t[2]}
          /\ ApplyGates(t[1], t[2], Scale, 0, run.req.seed,
                        run.req.alpha, run.req.beta) = None
    /\ gate.called
    /\ Len(gate.out) < Len(gate.candidates)

\* C17: snapshot changes nothing in the RunState (merge log, stored parent
\* snapshots, DSU, graph), and its output for a step is the same whatever
\* snapshot calls came before: a replay leaves the current run, the
\* returned RunStates and the graph as they are, and answers with the
\* snapshot of the RunState as run_pipeline returned it
C17_SnapshotPure ==
    [][(reply = NoReply /\ reply' # NoReply) =>
          /\ current' = current
          /\ results' = results
          /\ graph' = graph
          /\ run' = run
          /\ current # None =>
                /\ current[1] = results[Len(results)]
                /\ reply'.snap = Snapshot(results[Len(results)], reply'.step,
                                          DefaultEdgeThreshold)
      ]_vars

\* a replay of step 1 of a run with a merge in its log is answered
C17_Witness ==
    /\ reply.status = 200
    /\ reply.step = 1
    /\ current # None
    /\ current[1].merge_log # <<>>
    /\ reply.snap.metrics.num_groups < Len(current[1].feature_ids)

C19_DegenerateNeverFatal ==
    (graph \in DegenerateGraphs /\ KnownMetric(run.req.similarity_metric)) =>
        run.pc # "raised"

\* the grouping of the feature ids fids a stored parent snapshot shows
ParentsPartition(fids, parents) ==
    {{At(fids, j) : j \in {j2 \in DOMAIN parents : parents[j2] = root}} :
        root \in {parents[j] : j \in DOMAIN parents}}

\* the snapshot list has the length of the merge log and its k-th entry is
\* the grouping after the first k merge events replayed from singletons
SnapshotsMatchLog(fids, merge_log, parent_snapshots) ==
    /\ Len(parent_snapshots) = Len(merge_log)
    /\ \A k \in DOMAIN parent_snapshots :
           ParentsPartition(fids, parent_snapshots[k])
               = PartitionAfter([feature_ids |-> fids, merge_log |-> merge_log], k)

\* C20: at every point during a run and after it the snapshot list and the
\* merge log have the same length, the k-th stored snapshot is the
\* partition after exactly the first k merge events applied to singletons,
\* and a stored snapshot is never changed by later merges
C20_SnapshotsFollowLog ==
    [][/\ run'.pc \in {"layer", "cand", "publish"} =>
              SnapshotsMatchLog(run'.fp.fids, run'.merge_log, run'.parent_snapshots)
       /\ (run.pc \in {"layer", "cand"} /\ run'.pc \in {"layer", "cand", "publish"}) =>
              /\ run.parent_snapshots = Prefix(run'.parent_snapshots, Len(run.parent_snapshots))
              /\ run.merge_log = Prefix(run'.merge_log, Len(run.merge_log))
       /\ (run.pc = "publish" /\ results' # results) =>
              /\ results'[Len(results')].parent_snapshots = run.parent_snapshots
              /\ results'[Len(results')].merge_log = run.merge_log
       /\ \A i \in DOMAIN results : i \in DOMAIN results' /\ results'[i] = results[i]
       /\ \A i \in DOMAIN results' :
              SnapshotsMatchLog(results'[i].feature_ids, results'[i].merge_log,
                                results'[i].parent_snapshots)
       /\ current' # None =>
              Len(current'[1].parent_snapshots) = Len(current'[1].merge_log)
      ]_vars

\* a run holds two stored snapshots, the second taken after a later merge
C20_Witness ==
    /\ run.pc = "cand"
    /\ Len(run.parent_snapshots) >= 2
    /\ Len(run.merge_log) >= 2
    /\ run.parent_snapshots[1] # run.parent_snapshots[2]

\* the block of the feature id x in the partition P
BlockOf(P, x) == CHOOSE b \in P : x \in b

\* the grouping the merge log of the run r gives when replayed from
\* singletons
LogPartition(r, k) == PartitionAfter([feature_ids |-> r.fp.fids, merge_log |-> r.merge_log], k)

\* the endpoints of the candidate at hand of the run r are in one set
SameSetAtHand(r) ==
    /\ r.pc = "cand"
    /\ r.pairs # <<>>
    /\ LET t == Head(r.pairs)
           P == LogPartition(r, Len(r.merge_log))
       IN  BlockOf(P, At(r.fp.fids, At(r.idxs, t[1])))
               = BlockOf(P, At(r.fp.fids, At(r.idxs, t[2])))

\* C21: a candidate whose endpoints are already in one set when it is
\* reached is skipped without error and without a log entry; every event of
\* the log joined two sets that were distinct at that moment, the number of
\* groups after k events is the number of features minus k, and the log
\* has at most (number of features - 1) events
C21_SkipSameSet ==
    [][/\ (SameSetAtHand(run) /\ run' # run) =>
              /\ run'.pc = "cand"
              /\ run'.merge_log = run.merge_log
              /\ run'.parent_snapshots = run.parent_snapshots
              /\ run'.pairs = Tail(run.pairs)
       /\ run'.pc \in {"layer", "cand", "publish"} =>
              LET n == Len(run'.fp.fids)
              IN  /\ \A k \in DOMAIN run'.merge_log :
                         LET e == run'.merge_log[k]
                             P == LogPartition(run', k - 1)
                         IN  /\ BlockOf(P, e.u) # BlockOf(P, e.v)
                             /\ Cardinality(LogPartition(run', k)) = n - k
                             /\ Cardinality(ParentsPartition(run'.fp.fids,
                                                             run'.parent_snapshots[k])) = n - k
                  /\ Cardinality(PartitionOf(run'.dsu)) = n - Len(run'.merge_log)
                  /\ n >= 1 => Len(run'.merge_log) <= n - 1
                  /\ n = 0 => run'.merge_log = <<>>
      ]_vars

\* a run has a candidate at hand whose endpoints were joined by earlier
\* merges
C21_Witness ==
    /\ SameSetAtHand(run)
    /\ Len(run.merge_log) >= 2

\* the ids of DSU d whose representative is that of x
ClassOf(d, x) == {y \in DOMAIN d.parent : Root(d, y) = Root(d, x)}

\* C22: union attaches the root of the smaller set under the root of the
\* larger one and adds the sizes, and after any sequence of union, find,
\* groups, snapshot and restore of a captured snapshot size[r] is the
\* number of ids whose representative is r, for every root r
C22_SizeExact ==
    [][/\ \A r \in DOMAIN dsu'.parent :
              dsu'.parent[r] = r => dsu'.size[r] = Cardinality(ClassOf(dsu', r))
       /\ (ret'.op = "union" /\ ret'.val = TRUE) =>
              LET ca == Cardinality(ClassOf(dsu, ret'.a))
                  cb == Cardinality(ClassOf(dsu, ret'.b))
                  nr == Root(dsu', ret'.a)
              IN  /\ nr \in {Root(dsu, ret'.a), Root(dsu, ret'.b)}
                  /\ ca > cb => nr = Root(dsu, ret'.a)
                  /\ cb > ca => nr = Root(dsu, ret'.b)
                  /\ dsu'.size[nr] = ca + cb
      ]_vars

\* a restore has brought back a captured snapshot with a set of two or
\* more ids over a different parent array
C22_Witness ==
    /\ ret.op = "restore"
    /\ ret.pre # dsu.parent
    /\ \E r \in DOMAIN dsu.parent : dsu.parent[r] = r /\ dsu.size[r] >= 2

----------------------------------------------------------------------------
(* backend/app/services/supernode_reconstruction.py: reconstruct_supernodes
   on a SupernodeReconstructor instance *)

\* number of nodes of the attribution graph that are not logits
NumNodes == 4

\* node ids "n0", "n1", ...
ReconNodeId(p) == <<110, 48 + p>>

\* the shapes of these nodes: layer, weights of the edges to the logits,
\* influence
ReconPool ==
    {[layer |-> "0", w |-> <<1, 2, 3>>, influence |-> 0],
     [layer |-> "0", w |-> <<1, 3, 2>>, influence |-> 0],
     [layer |-> "1", w |-> <<1, 2, 3>>, influence |-> 0]}

\* the attribution graph dict with the nodes of the shapes ns, nl logit
\* nodes, and an edge from every node to every logit
AttributionGraph(ns, nl) ==
    LET fnodes == [p \in 1 .. Len(ns) |->
                     [id |-> ReconNodeId(p - 1), type |-> "feature",
                      layer |-> ns[p].layer, influence |-> ns[p].influence]]
        lnodes == [j \in 1 .. nl |->
                     [id |-> LogitId(j - 1), type |-> "logit",
                      layer |-> "0", influence |-> 0]]
        E[p \in 0 .. Len(ns)] ==
            IF p = 0 THEN <<>>
            ELSE E[p - 1] \o [j \in 1 .. nl |->
                                [source |-> ReconNodeId(p - 1),
                                 target |-> LogitId(j - 1),
                                 weight |-> ns[p].w[j]]]
    IN  [nodes |-> fnodes \o lnodes, edges |-> E[Len(ns)]]

\* graphs with three logits and with a single logit
ReconGraphs ==
    {AttributionGraph(ns, nl) : ns \in [1 .. NumNodes -> ReconPool], nl \in {1, 3}}

\* ReconstructionConfig: the defaults of the dataclass and two lower values
\* of max_supernode_size
ReconConfigs ==
    {[tau_sim |-> 85, alpha |-> 8000, beta |-> 5000, intra_layer_only |-> TRUE,
      max_supernode_size |-> m, max_duplicate_group_size |-> 5] : m \in {2, 3, 10}}

\* compute_fingerprints: the dict of NodeFingerprint in insertion order; a
\* vector is held by its direction, the row of summed edge weights
ComputeFingerprints(g) ==
    LET logit_ids == FilterMap(g.nodes, LAMBDA n : n.type = "logit", LAMBDA n : n.id)
        D == Len(logit_ids)
        vec(n) == IF n.type = "logit" \/ D < 2
                  THEN <<>>
                  ELSE [j \in 1 .. D |->
                          SumSeq(FilterMap(g.edges,
                                           LAMBDA e : e.source = n.id /\ e.target = logit_ids[j],
                                           LAMBDA e : e.weight))]
    IN  [k \in DOMAIN g.nodes |->
           [node_id |-> g.nodes[k].id, layer |-> g.nodes[k].layer,
            feature_type |-> g.nodes[k].type, fingerprint |-> vec(g.nodes[k]),
            original_influence |-> g.nodes[k].influence]]

\* the keys of an insertion-ordered dict filled with the values of s
RECURSIVE KeysInOrder(_)
KeysInOrder(s) ==
    IF s = <<>> THEN <<>>
    ELSE LET rest == KeysInOrder(SubSeq(s, 1, Len(s) - 1))
             x == s[Len(s)]
         IN  IF \E k \in DOMAIN rest : rest[k] = x THEN rest ELSE Append(rest, x)

\* propose_candidates: the informative fingerprints, without the groups of
\* identical fingerprints larger than max_duplicate_group_size, grouped by
\* layer, and of each group the pairs a < b with cosine >= tau_sim in
\* row-major order
ProposeCandidates(fingerprints, cfg) ==
    LET valid0 == FilterMap(fingerprints,
                            LAMBDA fp : /\ Len(fp.fingerprint) >= 2
                                        /\ \E k \in DOMAIN fp.fingerprint : fp.fingerprint[k] # 0
                                        /\ HasVariance(fp.fingerprint),
                            LAMBDA fp : fp)
        same(fp) == {k \in DOMAIN valid0 : valid0[k].fingerprint = fp.fingerprint}
        valid == FilterMap(valid0,
                           LAMBDA fp : Cardinality(same(fp)) <= cfg.max_duplicate_group_size,
                           LAMBDA fp : fp)
        layers == IF cfg.intra_layer_only
                  THEN KeysInOrder([k \in DOMAIN valid |-> valid[k].layer])
                  ELSE <<"all">>
        group(L) == FilterMap(valid,
                              LAMBDA fp : ~cfg.intra_layer_only \/ fp.layer = L,
                              LAMBDA fp : fp)
        pairsOf(grp) ==
            LET n == Len(grp)
                all == [k \in 1 .. (n * n) |-> <<((k - 1) \div n) + 1, ((k - 1) % n) + 1>>]
            IN  FilterMap(all,
                          LAMBDA p : /\ p[1] < p[2]
                                     /\ CosScore(grp[p[1]].fingerprint,
                                                 grp[p[2]].fingerprint) >= cfg.tau_sim,
                          LAMBDA p : [node1_id |-> grp[p[1]].node_id,
                                      node2_id |-> grp[p[2]].node_id,
                                      similarity |-> CosScore(grp[p[1]].fingerprint,
                                                              grp[p[2]].fingerprint),
                                      layer |-> grp[p[1]].layer])
        C[k \in 0 .. Len(layers)] ==
            IF k = 0 THEN <<>> ELSE C[k - 1] \o pairsOf(group(layers[k]))
    IN  C[Len(layers)]

\* DisjointSetUnion.__init__
RDSUInit(ids) ==
    [parent |-> [i \in ids |-> i], rank |-> [i \in ids |-> 0],
     groups |-> [i \in ids |-> {i}]]

\* DisjointSetUnion.find, with its path compression
RECURSIVE RDSUFind(_, _)
RDSUFind(d, node) ==
    IF d.parent[node] = node
    THEN [dsu |-> d, r |-> node]
    ELSE LET f == RDSUFind(d, d.parent[node])
         IN  [dsu |-> [f.dsu EXCEPT !.parent[node] = f.r], r |-> f.r]

\* DisjointSetUnion.union
RDSUUnion(d, node1, node2) ==
    LET f1 == RDSUFind(d, node1)
        f2 == RDSUFind(f1.dsu, node2)
        d2 == f2.dsu
        root1 == IF d2.rank[f1.r] < d2.rank[f2.r] THEN f2.r ELSE f1.r
        root2 == IF d2.rank[f1.r] < d2.rank[f2.r] THEN f1.r ELSE f2.r
    IN  IF f1.r = f2.r
        THEN [dsu |-> d2, ok |-> FALSE]
        ELSE [dsu |-> [parent |-> [d2.parent EXCEPT ![root2] = root1],
                       rank   |-> IF d2.rank[root1] = d2.rank[root2]
                                  THEN [d2.rank EXCEPT ![root1] = @ + 1]
                                  ELSE d2.rank,
                       groups |-> [r \in (DOMAIN d2.groups) \ {root2} |->
                                     IF r = root1
                                     THEN d2.groups[root1] \cup d2.groups[root2]
                                     ELSE d2.groups[r]]],
              ok |-> TRUE]

\* get_group without the lookup of the set: the node alone
RDSUGetGroup_Alone(d, node) ==
    [dsu |-> d, group |-> {node}]

\* DisjointSetUnion.get_group
RDSUGetGroup(d, node) ==
    IF node \notin DOMAIN d.parent
    THEN [dsu |-> d, group |-> {node}]
    ELSE LET f == RDSUFind(d, node)
         IN  [dsu |-> f.dsu,
              group |-> IF f.r \in DOMAIN f.dsu.groups THEN f.dsu.groups[f.r] ELSE {node}]

\* the reconstructor between calls; merge_log is the attribute of the
\* instance, the other fields are the locals of reconstruct_supernodes
IdleRecon(g, cfg) ==
    [pc |-> "idle", graph |-> g, cfg |-> cfg, fingerprints |-> <<>>,
     proposed |-> 0, cands |-> <<>>, passed |-> 0, dsu |-> RDSUInit({}),
     successful_merges |-> 0, merge_log |-> <<>>, ncalls |-> 0, result |-> None]

InitRecon ==
    /\ recon \in {IdleRecon(g, cfg) : g \in ReconGraphs, cfg \in ReconConfigs}
    /\ dsu = DSUInit(0)
    /\ snaps = <<>>
    /\ ret = NoRet
    /\ selIn = <<>>
    /\ selOut = <<>>
    /\ graph = <<>>
    /\ req = <<>>
    /\ tieOrder = "low"
    /\ run = <<>>
    /\ nruns = 0
    /\ current = None
    /\ results = <<>>
    /\ reply = NoReply
    /\ gate = NoGate

\* reconstruct_supernodes up to the merge loop of merge_and_rewire:
\* fingerprints, candidates, fidelity gate, a new DisjointSetUnion
ReconStart ==
    /\ recon.pc \in {"idle", "done"}
    /\ recon.ncalls < MaxRuns
    /\ LET fps == ComputeFingerprints(recon.graph)
           cands == ProposeCandidates(fps, recon.cfg)
           filtered == FidelityGate(cands, fps, recon.cfg.alpha, recon.cfg.beta)
       IN  recon' = [recon EXCEPT
                       !.pc = "merge",
                       !.ncalls = @ + 1,
                       !.fingerprints = fps,
                       !.proposed = Len(cands),
                       !.cands = filtered,
                       !.passed = Len(filtered),
                       !.dsu = RDSUInit({recon.graph.nodes[k].id :
                                            k \in DOMAIN recon.graph.nodes}),
                       !.successful_merges = 0]
    /\ UNCHANGED <<dsuVars, selVars, runVars, gate>>

\* one iteration of the merge loop of merge_and_rewire
ReconMerge ==
    /\ recon.pc = "merge"
    /\ recon.cands # <<>>
    /\ LET c  == Head(recon.cands)
           g1 == RDSUGetGroup(recon.dsu, c.node1_id)
           g2 == RDSUGetGroup(g1.dsu, c.node2_id)
           un == RDSUUnion(g2.dsu, c.node1_id, c.node2_id)
       IN  IF Cardinality(g1.group) + Cardinality(g2.group)
                <= recon.cfg.max_supernode_size
           THEN IF un.ok
                THEN recon' = [recon EXCEPT
                                 !.cands = Tail(@),
                                 !.dsu = un.dsu,
                                 !.successful_merges = @ + 1,
                                 !.merge_log = Append(@, [node1 |-> c.node1_id,
                                                          node2 |-> c.node2_id,
                                                          similarity |-> c.similarity,
                                                          layer |-> c.layer])]
                ELSE recon' = [recon EXCEPT !.cands = Tail(@), !.dsu = un.dsu]
           ELSE recon' = [recon EXCEPT !.cands = Tail(@), !.dsu = g2.dsu]
    /\ UNCHANGED <<dsuVars, selVars, runVars, gate>>

\* the end of reconstruct_supernodes: the supernodes are the groups of more
\* than one member, and the result dict carries self.merge_log
ReconReturn ==
    /\ recon.pc = "merge"
    /\ recon.cands = <<>>
    /\ LET groups == {recon.dsu.groups[r] : r \in DOMAIN recon.dsu.groups}
       IN  recon' = [recon EXCEPT
                       !.pc = "done",
                       !.result = Some([supernodes |-> {grp \in groups : Cardinality(grp) > 1},
                                        merge_log |-> recon.merge_log,
                                        candidates_proposed |-> recon.proposed,
                                        candidates_passed_gate |-> recon.passed])]
    /\ UNCHANGED <<dsuVars, selVars, runVars, gate>>

NextRecon ==
    \/ ReconStart
    \/ ReconMerge
    \/ ReconReturn

SpecRecon == InitRecon /\ [][NextRecon]_vars

\* the root of node by the parent pointers, and the members of its set
RECURSIVE RRoot(_, _)
RRoot(d, node) == IF d.parent[node] = node THEN node ELSE RRoot(d, d.parent[node])

RClass(d, node) == {y \in DOMAIN d.parent : RRoot(d, y) = RRoot(d, node)}

\* the candidates that reached the merge loop of the present call
GatePassed(r) ==
    FidelityGate(ProposeCandidates(r.fingerprints, r.cfg), r.fingerprints,
                 r.cfg.alpha, r.cfg.beta)

\* C23: in the merge loop of merge_and_rewire no set ever has more than
\* max_supernode_size members; a merge is logged only if the two sets at
\* hand together have at most max_supernode_size members; a candidate over
\* the cap changes neither the sets nor the log, and the loop goes on to the
\* next candidate
C23_SizeCap ==
    [][recon.pc = "merge" /\ recon'.pc = "merge" /\ recon'.cands # recon.cands =>
         LET c    == Head(recon.cands)
             cap  == recon.cfg.max_supernode_size
             both == Cardinality(RClass(recon.dsu, c.node1_id))
                       + Cardinality(RClass(recon.dsu, c.node2_id))
             ids  == DOMAIN recon.dsu.parent
         IN  /\ \A x \in ids : Cardinality(RClass(recon'.dsu, x)) <= cap
             /\ \A x \in ids : recon'.dsu.groups[RRoot(recon'.dsu, x)] = RClass(recon'.dsu, x)
             /\ recon'.merge_log # recon.merge_log => both <= cap
             /\ both > cap =>
                  /\ \A x \in ids : RClass(recon'.dsu, x) = RClass(recon.dsu, x)
                  /\ recon'.merge_log = recon.merge_log
                  /\ recon'.cands = Tail(recon.cands)]_vars

\* a first call has ended in which a candidate was passed over for the cap
\* and a later candidate was merged
C23_Witness ==
    /\ recon # <<>>
    /\ recon.pc = "done"
    /\ recon.ncalls = 1
    /\ LET f == GatePassed(recon)
       IN  \E i, j \in DOMAIN f :
             /\ i < j
             /\ RRoot(recon.dsu, f[i].node1_id) # RRoot(recon.dsu, f[i].node2_id)
             /\ recon.merge_log # <<>>
             /\ recon.merge_log[Len(recon.merge_log)].node1 = f[j].node1_id
             /\ recon.merge_log[Len(recon.merge_log)].node2 = f[j].node2_id

\* C24: the merge log reported by a call of reconstruct_supernodes holds
\* only the merges accepted in that call, also when the instance has served
\* an earlier call
C24_LogOfThisRun ==
    recon.pc = "done" =>
        Len(recon.result[1].merge_log) = recon.successful_merges

\* C25: the layer loop of run_pipeline takes the groups in ascending order
\* of their layer key, the key -1 of the features without a layer first, so
\* the layers along the merge log never decrease
C25_AscendingLayers ==
    run.pc \in {"layer", "cand", "publish", "done"} =>
        /\ \A i, j \in DOMAIN run.layer_to_indices :
             i < j => run.layer_to_indices[i].key < run.layer_to_indices[j].key
        /\ \A i, j \in DOMAIN run.merge_log :
             i < j => run.merge_log[i].layer <= run.merge_log[j].layer

\* C26: in a run of run_pipeline whose fingerprint matrix has fewer than two
\* columns every row has dimension 0, no pair of features is counted as a
\* candidate and no merge is logged
C26_FewColumns ==
    (run.pc \in {"layer", "cand", "publish"}
        /\ \A k \in DOMAIN run.fp.X : Len(run.fp.X[k]) < 2) =>
        /\ \A k \in DOMAIN run.fp.X : Len(run.fp.X[k]) = 0
        /\ run.total_candidates = 0
        /\ run.merge_log = <<>>

\* the stored vector of every feature node, None where it has none
MetaOf(g) == [k \in DOMAIN g.feature_ids |-> g.node_by_id[g.feature_ids[k]].meta]

\* the positions of the features a layer whitelist selects
SelectedOf(g, wl) ==
    {k \in DOMAIN g.feature_ids :
        \/ wl = None
        \/ /\ LayerOf(g, g.feature_ids[k]) # None
           /\ LayerOf(g, g.feature_ids[k])[1] \in wl[1]}

\* a selected feature has no one-dimensional stored vector, or two stored
\* vectors differ in length
LacksVectors(g, wl) ==
    LET m == MetaOf(g)
    IN  \/ \E k \in SelectedOf(g, wl) : m[k] = None \/ m[k][1].ndim # 1
        \/ \E k1, k2 \in DOMAIN m :
             /\ m[k1] # None
             /\ m[k2] # None
             /\ Len(m[k1][1].vec) # Len(m[k2][1].vec)

\* every row of the matrix is the adjacency row of its feature
AllAdjacency(g, fp) ==
    \A k \in DOMAIN fp.fids :
        fp.X[k] = AdjacencyRow(g, fp.fids[k],
                               IF Len(g.logit_ids) = 0 THEN g.token_ids ELSE g.logit_ids)

\* every row of the matrix is the stored vector of its feature
AllStored(g, fp) ==
    \A k \in DOMAIN fp.fids :
        /\ g.node_by_id[fp.fids[k]].meta # None
        /\ fp.X[k] = g.node_by_id[fp.fids[k]].meta[1].vec

\* C27: a run in delta_logit mode in which a selected feature lacks a usable
\* one-dimensional vector, or the stored vectors differ in length, starts
\* without an error on the adjacency rows of all its features; and the
\* matrix of a run is never a mixture: its rows are all adjacency rows or
\* all stored vectors
C27_DeltaLogitFallback ==
    [][(nruns' = nruns + 1 /\ run'.req.fingerprint_source = "delta_logit") =>
         /\ LacksVectors(graph, run'.req.layer_whitelist) =>
              /\ run'.pc = "layer"
              /\ AllAdjacency(graph, run'.fp)
         /\ run'.pc = "layer" =>
              \/ AllAdjacency(graph, run'.fp)
              \/ AllStored(graph, run'.fp)]_vars

\* a run in delta_logit mode has started on adjacency rows although one of
\* its features stores a usable vector that differs from its adjacency row
C27_Witness ==
    /\ run.pc = "layer"
    /\ run.req.fingerprint_source = "delta_logit"
    /\ LacksVectors(graph, run.req.layer_whitelist)
    /\ AllAdjacency(graph, run.fp)
    /\ \E k \in DOMAIN run.fp.fids :
         LET m == graph.node_by_id[run.fp.fids[k]].meta
         IN  m # None /\ m[1].ndim = 1 /\ m[1].vec # run.fp.X[k]

\* C28: every edge stored in the outgoing and in the incoming lists of a
\* Graph has its source and its target among the keys of node_by_id
C28_EdgesBetweenNodes ==
    \A i \in DOMAIN graph.node_by_id :
        \A e \in {graph.outgoing[i][k] : k \in DOMAIN graph.outgoing[i]}
                   \cup {graph.incoming[i][k] : k \in DOMAIN graph.incoming[i]} :
            /\ e.source \in DOMAIN graph.node_by_id
            /\ e.target \in DOMAIN graph.node_by_id

\* the layer key of the feature id fid of the graph g
LayerKeyOf(g, fid) == IF LayerOf(g, fid) = None THEN -1 ELSE LayerOf(g, fid)[1]

\* the replay steps of a published run
StepsOf(state) == 0 .. Len(state.parent_snapshots)

\* C29: every merge event of a run joins two features of one layer key, the
\* layer of the event; and in the snapshot of every replay step of the
\* published run the members of each group have one layer key, which is the
\* layer of the group and the layer in its supernode id
C29_SingleLayerGroups ==
    /\ run.pc \in {"layer", "cand", "publish"} =>
         \A k \in DOMAIN run.merge_log :
            /\ LayerKeyOf(graph, run.merge_log[k].u) = run.merge_log[k].layer
            /\ LayerKeyOf(graph, run.merge_log[k].v) = run.merge_log[k].layer
    /\ current # None =>
         \A step \in StepsOf(current[1]) :
            LET snap == Snapshot(current[1], step, DefaultEdgeThreshold)
            IN  /\ ~snap.error
                /\ \A k \in DOMAIN snap.nodes :
                      /\ \A m \in DOMAIN snap.nodes[k].members :
                            LayerKeyOf(current[1].graph, snap.nodes[k].members[m])
                                = snap.nodes[k].layer
                      /\ snap.nodes[k].id[2] = snap.nodes[k].layer

\* a published run has a replay step with groups of two features in two
\* layers
C29_Witness ==
    /\ current # None
    /\ \E step \in StepsOf(current[1]) :
         LET snap == Snapshot(current[1], step, DefaultEdgeThreshold)
         IN  \E k1, k2 \in DOMAIN snap.nodes :
               /\ snap.nodes[k1].size >= 2
               /\ snap.nodes[k2].size >= 2
               /\ snap.nodes[k1].layer # snap.nodes[k2].layer

\* the candidate pairs of the run r that pass the gate, over all layers, as
\* sets {i, j} of feature indices: of each layer the pairs selected, cut to
\* max_pairs_per_layer
PassingPairs(r, tie) ==
    LET ofLayer(ent) ==
            LET sel == LayerSelected(r.fp, ent.val, r.req, tie)
                kept == IF r.req.max_pairs_per_layer > 0
                        THEN Prefix(sel, r.req.max_pairs_per_layer) ELSE sel
                pass(t) == \/ ~r.req.gate_enabled
                           \/ ApplyGates(At(r.fp.fids, At(ent.val, t[1])),
                                         At(r.fp.fids, At(ent.val, t[2])),
                                         t[3], ent.key, r.req.seed,
                                         r.req.alpha, r.req.beta) # None
            IN  {{At(ent.val, kept[k][1]), At(ent.val, kept[k][2])} :
                    k \in {k2 \in DOMAIN kept : pass(kept[k2])}}
    IN  UNION {ofLayer(r.layer_to_indices[e]) :
                 e \in {e2 \in DOMAIN r.layer_to_indices :
                          Len(r.layer_to_indices[e2].val) >= 2}}

\* the vertices a chain of edges of E connects to a vertex of S
RECURSIVE ReachedFrom(_, _)
ReachedFrom(S, E) ==
    LET T == S \cup {y \in UNION E : \E x \in S : {x, y} \in E}
    IN  IF T = S THEN S ELSE ReachedFrom(T, E)

\* the connected components of the graph with the vertices V and the edges E
Components(V, E) == {ReachedFrom({x}, E) : x \in V}

\* C30: a run with max_merges = 0 ends with the grouping whose groups are
\* the connected components of the graph on the selected features with the
\* capped candidate pairs that pass the gate as edges
C30_ComponentsOfPassingPairs ==
    (run.pc = "publish" /\ run.req.max_merges = 0) =>
        PartitionOf(run.dsu)
            = Components(DOMAIN run.dsu.parent, PassingPairs(run, tieOrder))

\* a run with max_merges = 0 has ended with a group of three features two
\* of which are joined only by a chain of passing pairs
C30_Witness ==
    /\ run.pc = "publish"
    /\ run.req.max_merges = 0
    /\ \E b \in PartitionOf(run.dsu) :
         /\ Cardinality(b) >= 3
         /\ \E x, y \in b : x # y /\ {x, y} \notin PassingPairs(run, tieOrder)

====
